---- MODULE Spec2Model ----
(***************************************************************************)
(* Multi-tenant SaaS back office: the in-memory entity store (MemStorage,  *)
(* server/storage.ts) and the REST handlers over it (registerRoutes, the   *)
(* routes source embedded in replit.md).                                   *)
(*                                                                         *)
(* Identifiers produced by randomUUID() are modelled as fresh naturals     *)
(* drawn from one counter (nextId); 0 stands for "no session", null and    *)
(* for an identifier that names nothing.                                   *)
(***************************************************************************)
EXTENDS Integers, Sequences, FiniteSets, TLC

\* ---------------------------------------------------------------- bounds
\* Largest identifier the store hands out (caps the number of creations).
MaxIds == 13
\* Largest length of the audit log (caps the number of audited mutations).
MaxAudit == 11
\* Number of signup requests that may be in flight together.
MaxSignups == 2
\* Latest value of the clock.
MaxNow == 2

\* ------------------------------------------------------ program constants
\* PLAN_LIMITS[plan].pipelines
FreePipelines == 1
ProPipelines == 5
TeamPipelines == 20

VARIABLES
    users,          \* MemStorage.users:         id -> User
    organizations,  \* MemStorage.organizations: id -> Organization
    orgMembers,     \* MemStorage.orgMembers:    <<orgId, userId>> -> OrgMember
    apiKeys,        \* MemStorage.apiKeys:       id -> ApiKey
    settings,       \* MemStorage.settings:      <<orgId, key>> -> Setting
    subscriptions,  \* MemStorage.subscriptions: orgId -> Subscription
    auditLogs,      \* MemStorage.auditLogs:     sequence of AuditLog
    pipelines,      \* MemStorage.pipelines:     id -> Pipeline
    stages,         \* MemStorage.stages:        id -> Stage
    leads,          \* MemStorage.leads:         id -> Lead
    leadComments,   \* MemStorage.leadComments:  id -> LeadComment
    nextId,         \* the next value randomUUID() returns
    now,            \* the value new Date() returns
    resp,           \* the response being sent for the request just handled
    signups         \* signup requests in flight: slot -> progress

crmVars == <<pipelines, stages, leads, leadComments>>
orgVars == <<users, organizations, orgMembers, subscriptions>>
keyVars == <<apiKeys, settings>>
storeVars == <<orgVars, keyVars, crmVars>>
vars == <<storeVars, auditLogs, nextId, now, resp, signups>>

\* ------------------------------------------------------------- helpers
Undefined == [undefined |-> TRUE]
NoResp == [op |-> "none"]
NoSession == 0

\* { ...record, ...updates }
Merge(record, updates) ==
    [f \in (DOMAIN record) \cup (DOMAIN updates) |->
        IF f \in DOMAIN updates THEN updates[f] ELSE record[f]]

\* Map.set(key, value)
MapSet(map, key, value) ==
    [k \in (DOMAIN map) \cup {key} |-> IF k = key THEN value ELSE map[k]]

\* Map.delete(key)
MapDelete(map, key) == [k \in (DOMAIN map) \ {key} |-> map[k]]

\* Array.from(map.values())
Values(map) == {map[k] : k \in DOMAIN map}

EmptyMap == [k \in {} |-> 0]

\* The four CRM maps, threaded through the cascading deletes.
Crm == [pipelines |-> pipelines, stages |-> stages,
        leads |-> leads, leadComments |-> leadComments]

\* ------------------------------------------------- MemStorage: lookups
getUserByEmailOrFirst(email) ==
    IF \E id \in DOMAIN users : users[id].email = email
    THEN users[CHOOSE id \in DOMAIN users : users[id].email = email]
    ELSE IF DOMAIN users = {} THEN Undefined
    ELSE users[CHOOSE id \in DOMAIN users : \A other \in DOMAIN users : id <= other]

getUserByEmail(email) ==
    IF \E id \in DOMAIN users : users[id].email = email
    THEN LET ids == {id \in DOMAIN users : users[id].email = email}
         IN users[CHOOSE id \in ids : \A other \in ids : id <= other]
    ELSE Undefined

getOrgMember(orgId, userId) ==
    IF <<orgId, userId>> \in DOMAIN orgMembers
    THEN orgMembers[<<orgId, userId>>] ELSE Undefined

getOrgMembers(orgId) == {m \in Values(orgMembers) : m.orgId = orgId}

getApiKeys(orgId) == {k \in Values(apiKeys) : k.orgId = orgId}

getSetting(orgId, key) ==
    IF <<orgId, key>> \in DOMAIN settings
    THEN settings[<<orgId, key>>] ELSE Undefined

getSettings(orgId) == {s \in Values(settings) : s.orgId = orgId}

getSubscription(orgId) ==
    IF orgId \in DOMAIN subscriptions THEN subscriptions[orgId] ELSE Undefined

getAuditLogs(orgId) == SelectSeq(auditLogs, LAMBDA log : log.orgId = orgId)

\* The lookup without the organization filter.
getPipelineInAnyOrg(s, id, orgId) ==
    IF id \in DOMAIN s.pipelines THEN s.pipelines[id] ELSE Undefined

\* pipeline?.orgId === orgId ? pipeline : undefined
getPipelineIn(s, id, orgId) ==
    IF id \in DOMAIN s.pipelines /\ s.pipelines[id].orgId = orgId
    THEN s.pipelines[id] ELSE Undefined

getPipelinesIn(s, orgId) == {p \in Values(s.pipelines) : p.orgId = orgId}

getStageIn(s, id, orgId) ==
    IF id \in DOMAIN s.stages /\ s.stages[id].orgId = orgId
    THEN s.stages[id] ELSE Undefined

getStagesIn(s, pipelineId, orgId) ==
    {t \in Values(s.stages) : t.pipelineId = pipelineId /\ t.orgId = orgId}

getLeadIn(s, id, orgId) ==
    IF id \in DOMAIN s.leads /\ s.leads[id].orgId = orgId
    THEN s.leads[id] ELSE Undefined

getLeadsIn(s, stageId, orgId) ==
    {l \in Values(s.leads) : l.stageId = stageId /\ l.orgId = orgId}

getLeadCommentsIn(s, leadId, orgId) ==
    {c \in Values(s.leadComments) : c.leadId = leadId /\ c.orgId = orgId}

getPipeline(id, orgId) == getPipelineIn(Crm, id, orgId)
getPipelines(orgId) == getPipelinesIn(Crm, orgId)
getStage(id, orgId) == getStageIn(Crm, id, orgId)
getStages(pipelineId, orgId) == getStagesIn(Crm, pipelineId, orgId)
getLead(id, orgId) == getLeadIn(Crm, id, orgId)
getLeads(stageId, orgId) == getLeadsIn(Crm, stageId, orgId)
getLeadComments(leadId, orgId) == getLeadCommentsIn(Crm, leadId, orgId)

\* ------------------------------------------ MemStorage: cascading deletes
\* if (comment?.orgId === orgId) this.leadComments.delete(id)
deleteLeadCommentIn(s, id, orgId) ==
    IF id \in DOMAIN s.leadComments /\ s.leadComments[id].orgId = orgId
    THEN [s EXCEPT !.leadComments = MapDelete(s.leadComments, id)]
    ELSE s

\* for (const comment of comments) await this.deleteLeadComment(comment.id, orgId)
RECURSIVE deleteCommentsIn(_, _, _)
deleteCommentsIn(s, ids, orgId) ==
    IF ids = {} THEN s
    ELSE LET id == CHOOSE i \in ids : TRUE
         IN deleteCommentsIn(deleteLeadCommentIn(s, id, orgId), ids \ {id}, orgId)

deleteLeadIn(s, id, orgId) ==
    IF getLeadIn(s, id, orgId) = Undefined THEN s
    ELSE LET comments == getLeadCommentsIn(s, id, orgId)
             s1 == deleteCommentsIn(s, {c.id : c \in comments}, orgId)
         IN [s1 EXCEPT !.leads = MapDelete(s1.leads, id)]

\* for (const lead of leads) await this.deleteLead(lead.id, orgId)
RECURSIVE deleteLeadsIn(_, _, _)
deleteLeadsIn(s, ids, orgId) ==
    IF ids = {} THEN s
    ELSE LET id == CHOOSE i \in ids : TRUE
         IN deleteLeadsIn(deleteLeadIn(s, id, orgId), ids \ {id}, orgId)

deleteStageIn(s, id, orgId) ==
    IF getStageIn(s, id, orgId) = Undefined THEN s
    ELSE LET ls == getLeadsIn(s, id, orgId)
             s1 == deleteLeadsIn(s, {l.id : l \in ls}, orgId)
         IN [s1 EXCEPT !.stages = MapDelete(s1.stages, id)]

\* for (const stage of stages) await this.deleteStage(stage.id, orgId)
RECURSIVE deleteStagesIn(_, _, _)
deleteStagesIn(s, ids, orgId) ==
    IF ids = {} THEN s
    ELSE LET id == CHOOSE i \in ids : TRUE
         IN deleteStagesIn(deleteStageIn(s, id, orgId), ids \ {id}, orgId)

deletePipelineIn(s, id, orgId) ==
    IF getPipelineIn(s, id, orgId) = Undefined THEN s
    ELSE LET ss == getStagesIn(s, id, orgId)
             s1 == deleteStagesIn(s, {t.id : t \in ss}, orgId)
         IN [s1 EXCEPT !.pipelines = MapDelete(s1.pipelines, id)]

deleteLeadComment(id, orgId) == deleteLeadCommentIn(Crm, id, orgId)
deleteLead(id, orgId) == deleteLeadIn(Crm, id, orgId)
deleteStage(id, orgId) == deleteStageIn(Crm, id, orgId)
deletePipeline(id, orgId) == deletePipelineIn(Crm, id, orgId)

\* if (key && key.orgId === orgId) this.apiKeys.delete(id)
deleteApiKey(id, orgId) ==
    IF id \in DOMAIN apiKeys /\ apiKeys[id].orgId = orgId
    THEN MapDelete(apiKeys, id) ELSE apiKeys

\* ------------------------------------------------ MemStorage: updates
\* The result of an update: the new map, or the Error the method throws.
Threw(message) == [threw |-> message]

updatePipeline(id, orgId, updates) ==
    IF getPipeline(id, orgId) = Undefined THEN Threw("Pipeline not found")
    ELSE [map |-> MapSet(pipelines, id, Merge(getPipeline(id, orgId), updates))]

updateStageIn(map, id, orgId, updates) ==
    IF ~(id \in DOMAIN map /\ map[id].orgId = orgId) THEN Threw("Stage not found")
    ELSE [map |-> MapSet(map, id, Merge(map[id], updates))]

updateStage(id, orgId, updates) == updateStageIn(stages, id, orgId, updates)

\* for (const { id, order } of stageOrders) await this.updateStage(id, orgId, { order })
\* The result carries the map as the loop left it, and the Error if one was thrown.
RECURSIVE reorderStagesIn(_, _, _)
reorderStagesIn(map, orgId, stageOrders) ==
    IF stageOrders = <<>> THEN [map |-> map, threw |-> FALSE]
    ELSE LET first == Head(stageOrders)
             r == updateStageIn(map, first.id, orgId, [order |-> first.order])
         IN IF "threw" \in DOMAIN r THEN [map |-> map, threw |-> TRUE]
            ELSE reorderStagesIn(r.map, orgId, Tail(stageOrders))

reorderStages(pipelineId, orgId, stageOrders) ==
    reorderStagesIn(stages, orgId, stageOrders)

updateLeadKeepTime(id, orgId, updates) ==
    IF getLead(id, orgId) = Undefined THEN Threw("Lead not found")
    ELSE [map |-> MapSet(leads, id, Merge(getLead(id, orgId), updates))]

\* { ...lead, ...updates, updatedAt: new Date() }
updateLead(id, orgId, updates) ==
    IF getLead(id, orgId) = Undefined THEN Threw("Lead not found")
    ELSE [map |-> MapSet(leads, id,
                    Merge(Merge(getLead(id, orgId), updates), [updatedAt |-> now]))]

moveLeadToStage(leadId, stageId, orgId) ==
    updateLead(leadId, orgId, [stageId |-> stageId])

\* --------------------------------------------- MemStorage: creations
\* this.orgMembers.set(`${orgId}-${userId}`, member)
addOrgMemberViewer(members, orgId, userId, role, invitedBy) ==
    MapSet(members, <<orgId, userId>>,
           [orgId |-> orgId, userId |-> userId, role |-> "viewer",
            invitedBy |-> invitedBy, acceptedAt |-> "set",
            position |-> IF <<orgId, userId>> \in DOMAIN members
                         THEN members[<<orgId, userId>>].position
                         ELSE Cardinality(DOMAIN members) + 1])

\* position: the entry's place in the Map's insertion order (a new key goes
\* last, a key that is already there keeps its place).
addOrgMember(members, orgId, userId, role, invitedBy) ==
    MapSet(members, <<orgId, userId>>,
           [orgId |-> orgId, userId |-> userId, role |-> role,
            invitedBy |-> invitedBy, acceptedAt |-> "set",
            position |-> IF <<orgId, userId>> \in DOMAIN members
                         THEN members[<<orgId, userId>>].position
                         ELSE Cardinality(DOMAIN members) + 1])

\* this.apiKeys.set(id, { ...apiKey, id, lastUsedAt: null, createdAt })
createApiKey(id, orgId, name, keyHash, keyPreview, createdBy) ==
    MapSet(apiKeys, id,
           [id |-> id, orgId |-> orgId, name |-> name, keyHash |-> keyHash,
            keyPreview |-> keyPreview, createdBy |-> createdBy])

setSettingUnscoped(map, orgId, key, value, updatedBy) ==
    MapSet(map, <<0, key>>,
           [orgId |-> orgId, key |-> key, value |-> value, updatedBy |-> updatedBy])

\* this.settings.set(`${orgId}-${key}`, setting)
setSetting(map, orgId, key, value, updatedBy) ==
    MapSet(map, <<orgId, key>>,
           [orgId |-> orgId, key |-> key, value |-> value, updatedBy |-> updatedBy])

createAuditLogFront(log, orgId, actorId, action, entity, entityId, key) ==
    <<[id |-> Len(log) + 1, orgId |-> orgId, actorId |-> actorId,
       action |-> action, entity |-> entity, entityId |-> entityId,
       key |-> key]>> \o log

\* this.auditLogs.push({ ...insertLog, id: this.auditLogs.length + 1, ... })
createAuditLog(log, orgId, actorId, action, entity, entityId, key) ==
    Append(log, [id |-> Len(log) + 1, orgId |-> orgId, actorId |-> actorId,
                 action |-> action, entity |-> entity, entityId |-> entityId,
                 key |-> key])

createPipeline(id, data) == MapSet(pipelines, id, Merge(data, [id |-> id]))

createStage(id, data) == MapSet(stages, id, Merge(data, [id |-> id]))

createLead(id, data) == MapSet(leads, id, Merge(data, [id |-> id, updatedAt |-> now]))

createLeadComment(id, data) == MapSet(leadComments, id, Merge(data, [id |-> id]))

getOrganizationStatsUnfiltered(orgId) ==
    [members |-> Cardinality(DOMAIN orgMembers),
     apiKeys |-> Cardinality(DOMAIN apiKeys),
     pipelines |-> Cardinality(DOMAIN pipelines),
     leads |-> Cardinality(DOMAIN leads)]

getOrganizationStats(orgId) ==
    [members |-> Cardinality({k \in DOMAIN orgMembers : orgMembers[k].orgId = orgId}),
     apiKeys |-> Cardinality({k \in DOMAIN apiKeys : apiKeys[k].orgId = orgId}),
     pipelines |-> Cardinality({k \in DOMAIN pipelines : pipelines[k].orgId = orgId}),
     leads |-> Cardinality({k \in DOMAIN leads : leads[k].orgId = orgId})]

\* ------------------------------------------------ routes: middleware
Pass == 0

\* if (!req.session.userId) return res.status(401)
requireAuth(caller) == IF caller = NoSession THEN 401 ELSE Pass

requireOrgAccessAnyUser(caller, orgId) ==
    IF orgId = 0 \/ caller = NoSession THEN 401 ELSE Pass

\* if (!organizationId || !userId) 401; if (!member) 403; req.orgMember = member
requireOrgAccess(caller, orgId) ==
    IF orgId = 0 \/ caller = NoSession THEN 401
    ELSE IF getOrgMember(orgId, caller) = Undefined THEN 403
    ELSE Pass

\* requireAuth, then requireOrgAccess, then the handler
Guard(caller, orgId) ==
    IF requireAuth(caller) # Pass THEN requireAuth(caller)
    ELSE requireOrgAccess(caller, orgId)

RoleAlwaysAdmin(caller, orgId) == "admin"

\* req.orgMember.role
Role(caller, orgId) ==
    IF getOrgMember(orgId, caller) = Undefined THEN "undefined"
    ELSE getOrgMember(orgId, caller).role

\* res.status(status).json(body)
\* (target: the entity id in the path, 0 when the path has none)
Reply(op, caller, orgId, target, status, body) ==
    resp' = [op |-> op, caller |-> caller, org |-> orgId, target |-> target,
             status |-> status, body |-> body]

\* A response that follows no change of the store.
Reject(op, caller, orgId, target, status) ==
    /\ Reply(op, caller, orgId, target, status, {})
    /\ UNCHANGED <<storeVars, auditLogs, nextId, now, signups>>

\* A read: the response carries data, the store is as it was.
Read(op, caller, orgId, target, body) ==
    /\ Reply(op, caller, orgId, target, 200, body)
    /\ UNCHANGED <<storeVars, auditLogs, nextId, now, signups>>

\* The server takes the next request once the response has been sent.
Idle == resp = NoResp

\* The response reaches the client.
Deliver ==
    /\ resp # NoResp
    /\ resp' = NoResp
    /\ UNCHANGED <<storeVars, auditLogs, nextId, now, signups>>

HasFields(body, fields) == fields \subseteq DOMAIN body

\* ------------------------------------------------- routes: members
\* GET /api/organizations/:organizationId/members
ListMembers(caller, orgId) ==
    /\ Idle
    /\ IF Guard(caller, orgId) # Pass
       THEN Reject("listMembers", caller, orgId, 0, Guard(caller, orgId))
       ELSE Read("listMembers", caller, orgId, 0, getOrgMembers(orgId))

\* POST /api/organizations/:organizationId/members
\* (the response record keeps the email the request asked to invite)
InviteMember(caller, orgId, body) ==
    LET Answer(status, result) ==
            resp' = [op |-> "inviteMember", caller |-> caller, org |-> orgId,
                     target |-> 0, status |-> status, body |-> result,
                     email |-> body.email]
        Refuse(status) ==
            /\ Answer(status, {})
            /\ UNCHANGED <<storeVars, auditLogs, nextId, now, signups>>
    IN /\ Idle
       /\ IF Guard(caller, orgId) # Pass
          THEN Refuse(Guard(caller, orgId))
          ELSE IF Role(caller, orgId) \notin {"admin", "editor"}
          THEN Refuse(403)
          ELSE IF getUserByEmail(body.email) = Undefined
          THEN Refuse(404)
          ELSE IF getOrgMember(orgId, getUserByEmail(body.email).id) # Undefined
          THEN Refuse(400)
          ELSE LET invitedUser == getUserByEmail(body.email)
               IN /\ Len(auditLogs) < MaxAudit
                  /\ orgMembers' = addOrgMember(orgMembers, orgId, invitedUser.id,
                                                body.role, caller)
                  /\ auditLogs' = createAuditLog(auditLogs, orgId, caller, "invite",
                                                 "member", invitedUser.id, "")
                  /\ Answer(200, {orgMembers'[<<orgId, invitedUser.id>>]})
                  /\ UNCHANGED <<users, organizations, subscriptions, keyVars,
                                 crmVars, nextId, now, signups>>

\* ------------------------------------------------ routes: API keys
\* `sk_${randomBytes(24).toString("hex")}`: the fixed prefix, the characters
\* the preview shows (head) and the characters it hides (tail).
KeyValue(n) == [kind |-> "plain", prefix |-> "sk_", head |-> n, tail |-> n]

Sha256Identity(keyValue) == keyValue

\* createHash("sha256").update(keyValue).digest("hex")
Sha256(keyValue) == [kind |-> "sha256", of |-> keyValue]

\* `${keyValue.substring(0, 12)}${"*".repeat(20)}`
KeyPreview(keyValue) ==
    [kind |-> "preview", prefix |-> keyValue.prefix, head |-> keyValue.head,
     stars |-> 20]

\* insertApiKeySchema.parse(req.body): orgId, name and createdBy are required
parseInsertApiKey(body) == HasFields(body, {"orgId", "name", "createdBy"})

\* GET /api/organizations/:organizationId/api-keys
ListApiKeys(caller, orgId) ==
    /\ Idle
    /\ IF Guard(caller, orgId) # Pass
       THEN Reject("listApiKeys", caller, orgId, 0, Guard(caller, orgId))
       ELSE Read("listApiKeys", caller, orgId, 0, getApiKeys(orgId))

\* POST /api/organizations/:organizationId/api-keys
CreateApiKey(caller, orgId, body) ==
    /\ Idle
    /\ IF Guard(caller, orgId) # Pass
       THEN Reject("createApiKey", caller, orgId, 0, Guard(caller, orgId))
       ELSE IF ~parseInsertApiKey(body)
       THEN Reject("createApiKey", caller, orgId, 0, 400)
       ELSE IF Role(caller, orgId) \notin {"admin", "editor"}
       THEN Reject("createApiKey", caller, orgId, 0, 403)
       ELSE LET keyValue == KeyValue(nextId)
            IN /\ Len(auditLogs) < MaxAudit
               /\ nextId <= MaxIds
               /\ apiKeys' = createApiKey(nextId, orgId, body.name, Sha256(keyValue),
                                          KeyPreview(keyValue), caller)
               /\ nextId' = nextId + 1
               /\ auditLogs' = createAuditLog(auditLogs, orgId, caller, "create",
                                              "api_key", nextId, "")
               /\ Reply("createApiKey", caller, orgId, 0, 200,
                        {Merge(apiKeys'[nextId], [keyValue |-> keyValue])})
               /\ UNCHANGED <<orgVars, settings, crmVars, now, signups>>

\* DELETE /api/organizations/:organizationId/api-keys/:keyId
DeleteApiKey(caller, orgId, keyId) ==
    /\ Idle
    /\ IF Guard(caller, orgId) # Pass
       THEN Reject("deleteApiKey", caller, orgId, keyId, Guard(caller, orgId))
       ELSE IF Role(caller, orgId) \notin {"admin", "editor"}
       THEN Reject("deleteApiKey", caller, orgId, keyId, 403)
       ELSE /\ Len(auditLogs) < MaxAudit
            /\ apiKeys' = deleteApiKey(keyId, orgId)
            /\ auditLogs' = createAuditLog(auditLogs, orgId, caller, "delete",
                                           "api_key", keyId, "")
            /\ Reply("deleteApiKey", caller, orgId, keyId, 200, {})
            /\ UNCHANGED <<orgVars, settings, crmVars, nextId, now, signups>>

\* ------------------------------------------------- routes: settings
\* GET /api/organizations/:organizationId/settings
GetSettings(caller, orgId) ==
    /\ Idle
    /\ IF Guard(caller, orgId) # Pass
       THEN Reject("getSettings", caller, orgId, 0, Guard(caller, orgId))
       ELSE Read("getSettings", caller, orgId, 0,
                 {[key |-> st.key, value |-> st.value] : st \in getSettings(orgId)})

\* PUT /api/organizations/:organizationId/settings/:key
UpdateSetting(caller, orgId, key, body) ==
    /\ Idle
    /\ IF Guard(caller, orgId) # Pass
       THEN Reject("updateSetting", caller, orgId, 0, Guard(caller, orgId))
       ELSE IF Role(caller, orgId) # "admin"
       THEN Reject("updateSetting", caller, orgId, 0, 403)
       ELSE /\ Len(auditLogs) < MaxAudit
            /\ settings' = setSetting(settings, orgId, key, body.value, caller)
            /\ auditLogs' = createAuditLog(auditLogs, orgId, caller, "update",
                                           "setting", 0, key)
            /\ Reply("updateSetting", caller, orgId, 0, 200,
                     {settings'[<<orgId, key>>]})
            /\ UNCHANGED <<orgVars, apiKeys, crmVars, nextId, now, signups>>

\* GET /api/organizations/:organizationId/audit-logs
GetAuditLogs(caller, orgId) ==
    /\ Idle
    /\ IF Guard(caller, orgId) # Pass
       THEN Reject("getAuditLogs", caller, orgId, 0, Guard(caller, orgId))
       ELSE Read("getAuditLogs", caller, orgId, 0,
                 {getAuditLogs(orgId)[i] : i \in 1..Len(getAuditLogs(orgId))})

\* GET /api/organizations/:organizationId
GetOrganization(caller, orgId) ==
    /\ Idle
    /\ IF Guard(caller, orgId) # Pass
       THEN Reject("getOrganization", caller, orgId, 0, Guard(caller, orgId))
       ELSE IF orgId \notin DOMAIN organizations
       THEN Reject("getOrganization", caller, orgId, 0, 404)
       ELSE Read("getOrganization", caller, orgId, 0,
                 {[organization |-> organizations[orgId],
                   subscription |-> getSubscription(orgId),
                   stats |-> getOrganizationStats(orgId),
                   userRole |-> Role(caller, orgId)]})

\* ------------------------------------------ routes: tabular-data provider
\* POST /api/organizations/:organizationId/airtable/test
\* envKey: whether process.env.AIRTABLE_API_KEY is set
AirtableTest(caller, orgId, body, envKey) ==
    /\ Idle
    /\ IF Guard(caller, orgId) # Pass
       THEN Reject("airtableTest", caller, orgId, 0, Guard(caller, orgId))
       ELSE IF ~(HasFields(body, {"apiKey"}) \/ envKey) \/ ~HasFields(body, {"baseId"})
       THEN Reject("airtableTest", caller, orgId, 0, 400)
       ELSE /\ LET withBase == setSetting(settings, orgId, "airtable.baseId",
                                          body.baseId, caller)
               IN settings' = IF HasFields(body, {"apiKey"})
                              THEN setSetting(withBase, orgId, "airtable.apiKey",
                                              body.apiKey, caller)
                              ELSE withBase
            /\ Reply("airtableTest", caller, orgId, 0, 200, {})
            /\ UNCHANGED <<orgVars, apiKeys, crmVars, auditLogs, nextId, now, signups>>

\* POST /api/organizations/:organizationId/airtable/sync
AirtableSync(caller, orgId) ==
    /\ Idle
    /\ IF Guard(caller, orgId) # Pass
       THEN Reject("airtableSync", caller, orgId, 0, Guard(caller, orgId))
       ELSE IF Role(caller, orgId) # "admin"
       THEN Reject("airtableSync", caller, orgId, 0, 403)
       ELSE IF \/ getSetting(orgId, "airtable.baseId") = Undefined
               \/ getSetting(orgId, "airtable.apiKey") = Undefined
       THEN Reject("airtableSync", caller, orgId, 0, 400)
       ELSE /\ Len(auditLogs) < MaxAudit
            /\ auditLogs' = createAuditLog(auditLogs, orgId, caller, "sync",
                                           "airtable", 0, "")
            /\ Reply("airtableSync", caller, orgId, 0, 200, {})
            /\ UNCHANGED <<storeVars, nextId, now, signups>>

\* ------------------------------------------------ routes: pipelines
\* PLAN_LIMITS[plan].pipelines
PlanPipelines(plan) ==
    CASE plan = "free" -> FreePipelines
      [] plan = "pro" -> ProPipelines
      [] plan = "team" -> TeamPipelines

IsThrown(result) == "threw" \in DOMAIN result

\* GET /api/organizations/:organizationId/pipelines
ListPipelines(caller, orgId) ==
    /\ Idle
    /\ IF Guard(caller, orgId) # Pass
       THEN Reject("listPipelines", caller, orgId, 0, Guard(caller, orgId))
       ELSE Read("listPipelines", caller, orgId, 0, getPipelines(orgId))

\* POST /api/organizations/:organizationId/pipelines
CreatePipeline(caller, orgId, body) ==
    /\ Idle
    /\ IF Guard(caller, orgId) # Pass
       THEN Reject("createPipeline", caller, orgId, 0, Guard(caller, orgId))
       ELSE IF ~HasFields(body, {"name"})
       THEN Reject("createPipeline", caller, orgId, 0, 400)
       ELSE IF Role(caller, orgId) \notin {"admin", "editor"}
       THEN Reject("createPipeline", caller, orgId, 0, 403)
       ELSE LET subscription == getSubscription(orgId)
                plan == IF subscription = Undefined THEN "free" ELSE subscription.plan
            IN IF Cardinality({k \in DOMAIN pipelines : pipelines[k].orgId = orgId})
                     >= PlanPipelines(plan)
               THEN Reject("createPipeline", caller, orgId, 0, 400)
               ELSE /\ Len(auditLogs) < MaxAudit
                    /\ nextId <= MaxIds
                    /\ pipelines' = createPipeline(nextId,
                                        [orgId |-> orgId, name |-> body.name])
                    /\ nextId' = nextId + 1
                    /\ auditLogs' = createAuditLog(auditLogs, orgId, caller, "create",
                                                   "pipeline", nextId, "")
                    /\ Reply("createPipeline", caller, orgId, 0, 200, {pipelines'[nextId]})
                    /\ UNCHANGED <<orgVars, keyVars, stages, leads, leadComments,
                                   now, signups>>

\* GET /api/organizations/:organizationId/pipelines/:pipelineId
GetPipeline(caller, orgId, pipelineId) ==
    /\ Idle
    /\ IF Guard(caller, orgId) # Pass
       THEN Reject("getPipeline", caller, orgId, pipelineId, Guard(caller, orgId))
       ELSE IF getPipeline(pipelineId, orgId) = Undefined
       THEN Reject("getPipeline", caller, orgId, pipelineId, 404)
       ELSE Read("getPipeline", caller, orgId, pipelineId,
                 {[pipeline |-> getPipeline(pipelineId, orgId),
                   stages |-> getStages(pipelineId, orgId),
                   leads |-> {l \in Values(leads) :
                                /\ l.orgId = orgId
                                /\ \E t \in getStages(pipelineId, orgId) :
                                      t.id = l.stageId}]})

\* PUT /api/organizations/:organizationId/pipelines/:pipelineId
UpdatePipeline(caller, orgId, pipelineId, updates) ==
    /\ Idle
    /\ IF Guard(caller, orgId) # Pass
       THEN Reject("updatePipeline", caller, orgId, pipelineId, Guard(caller, orgId))
       ELSE IF Role(caller, orgId) \notin {"admin", "editor"}
       THEN Reject("updatePipeline", caller, orgId, pipelineId, 403)
       ELSE IF IsThrown(updatePipeline(pipelineId, orgId, updates))
       THEN Reject("updatePipeline", caller, orgId, pipelineId, 500)
       ELSE /\ Len(auditLogs) < MaxAudit
            /\ pipelines' = updatePipeline(pipelineId, orgId, updates).map
            /\ auditLogs' = createAuditLog(auditLogs, orgId, caller, "update",
                                           "pipeline", pipelines'[pipelineId].id, "")
            /\ Reply("updatePipeline", caller, orgId, pipelineId, 200, {pipelines'[pipelineId]})
            /\ UNCHANGED <<orgVars, keyVars, stages, leads, leadComments,
                           nextId, now, signups>>

\* DELETE /api/organizations/:organizationId/pipelines/:pipelineId
DeletePipeline(caller, orgId, pipelineId) ==
    /\ Idle
    /\ IF Guard(caller, orgId) # Pass
       THEN Reject("deletePipeline", caller, orgId, pipelineId, Guard(caller, orgId))
       ELSE IF Role(caller, orgId) \notin {"admin", "editor"}
       THEN Reject("deletePipeline", caller, orgId, pipelineId, 403)
       ELSE /\ Len(auditLogs) < MaxAudit
            /\ LET after == deletePipeline(pipelineId, orgId)
               IN /\ pipelines' = after.pipelines
                  /\ stages' = after.stages
                  /\ leads' = after.leads
                  /\ leadComments' = after.leadComments
            /\ auditLogs' = createAuditLog(auditLogs, orgId, caller, "delete",
                                           "pipeline", pipelineId, "")
            /\ Reply("deletePipeline", caller, orgId, pipelineId, 200, {})
            /\ UNCHANGED <<orgVars, keyVars, nextId, now, signups>>

\* --------------------------------------------------- routes: stages
\* POST /api/organizations/:organizationId/stages
CreateStage(caller, orgId, body) ==
    /\ Idle
    /\ IF Guard(caller, orgId) # Pass
       THEN Reject("createStage", caller, orgId, 0, Guard(caller, orgId))
       ELSE IF ~HasFields(body, {"pipelineId", "name", "order"})
       THEN Reject("createStage", caller, orgId, 0, 400)
       ELSE IF Role(caller, orgId) \notin {"admin", "editor"}
       THEN Reject("createStage", caller, orgId, 0, 403)
       ELSE IF getPipeline(body.pipelineId, orgId) = Undefined
       THEN Reject("createStage", caller, orgId, 0, 404)
       ELSE /\ Len(auditLogs) < MaxAudit
            /\ nextId <= MaxIds
            /\ stages' = createStage(nextId,
                             [orgId |-> orgId, pipelineId |-> body.pipelineId,
                              name |-> body.name, order |-> body.order])
            /\ nextId' = nextId + 1
            /\ auditLogs' = createAuditLog(auditLogs, orgId, caller, "create",
                                           "stage", nextId, "")
            /\ Reply("createStage", caller, orgId, 0, 200, {stages'[nextId]})
            /\ UNCHANGED <<orgVars, keyVars, pipelines, leads, leadComments,
                           now, signups>>

\* PUT /api/organizations/:organizationId/stages/:stageId
UpdateStage(caller, orgId, stageId, updates) ==
    /\ Idle
    /\ IF Guard(caller, orgId) # Pass
       THEN Reject("updateStage", caller, orgId, stageId, Guard(caller, orgId))
       ELSE IF Role(caller, orgId) \notin {"admin", "editor"}
       THEN Reject("updateStage", caller, orgId, stageId, 403)
       ELSE IF IsThrown(updateStage(stageId, orgId, updates))
       THEN Reject("updateStage", caller, orgId, stageId, 500)
       ELSE /\ Len(auditLogs) < MaxAudit
            /\ stages' = updateStage(stageId, orgId, updates).map
            /\ auditLogs' = createAuditLog(auditLogs, orgId, caller, "update",
                                           "stage", stages'[stageId].id, "")
            /\ Reply("updateStage", caller, orgId, stageId, 200, {stages'[stageId]})
            /\ UNCHANGED <<orgVars, keyVars, pipelines, leads, leadComments,
                           nextId, now, signups>>

\* DELETE /api/organizations/:organizationId/stages/:stageId
DeleteStage(caller, orgId, stageId) ==
    /\ Idle
    /\ IF Guard(caller, orgId) # Pass
       THEN Reject("deleteStage", caller, orgId, stageId, Guard(caller, orgId))
       ELSE IF Role(caller, orgId) \notin {"admin", "editor"}
       THEN Reject("deleteStage", caller, orgId, stageId, 403)
       ELSE /\ Len(auditLogs) < MaxAudit
            /\ LET after == deleteStage(stageId, orgId)
               IN /\ stages' = after.stages
                  /\ leads' = after.leads
                  /\ leadComments' = after.leadComments
            /\ auditLogs' = createAuditLog(auditLogs, orgId, caller, "delete",
                                           "stage", stageId, "")
            /\ Reply("deleteStage", caller, orgId, stageId, 200, {})
            /\ UNCHANGED <<orgVars, keyVars, pipelines, nextId, now, signups>>

\* POST /api/organizations/:organizationId/stages/reorder
ReorderStages(caller, orgId, body) ==
    /\ Idle
    /\ IF Guard(caller, orgId) # Pass
       THEN Reject("reorderStages", caller, orgId, 0, Guard(caller, orgId))
       ELSE IF Role(caller, orgId) \notin {"admin", "editor"}
       THEN Reject("reorderStages", caller, orgId, 0, 403)
       ELSE LET r == reorderStages(body.pipelineId, orgId, body.stageOrders)
            IN IF r.threw
               THEN /\ stages' = r.map
                    /\ Reply("reorderStages", caller, orgId, 0, 500, {})
                    /\ UNCHANGED <<orgVars, keyVars, pipelines, leads, leadComments,
                                   auditLogs, nextId, now, signups>>
               ELSE /\ Len(auditLogs) < MaxAudit
                    /\ stages' = r.map
                    /\ auditLogs' = createAuditLog(auditLogs, orgId, caller, "reorder",
                                                   "stage", body.pipelineId, "")
                    /\ Reply("reorderStages", caller, orgId, 0, 200, {})
                    /\ UNCHANGED <<orgVars, keyVars, pipelines, leads, leadComments,
                                   nextId, now, signups>>

\* ---------------------------------------------------- routes: leads
\* POST /api/organizations/:organizationId/leads
CreateLead(caller, orgId, body) ==
    /\ Idle
    /\ IF Guard(caller, orgId) # Pass
       THEN Reject("createLead", caller, orgId, 0, Guard(caller, orgId))
       ELSE IF ~HasFields(body, {"stageId", "name"})
       THEN Reject("createLead", caller, orgId, 0, 400)
       ELSE IF Role(caller, orgId) \notin {"admin", "editor"}
       THEN Reject("createLead", caller, orgId, 0, 403)
       ELSE IF getStage(body.stageId, orgId) = Undefined
       THEN Reject("createLead", caller, orgId, 0, 404)
       ELSE /\ Len(auditLogs) < MaxAudit
            /\ nextId <= MaxIds
            /\ leads' = createLead(nextId,
                            [orgId |-> orgId, stageId |-> body.stageId,
                             name |-> body.name])
            /\ nextId' = nextId + 1
            /\ auditLogs' = createAuditLog(auditLogs, orgId, caller, "create",
                                           "lead", nextId, "")
            /\ Reply("createLead", caller, orgId, 0, 200, {leads'[nextId]})
            /\ UNCHANGED <<orgVars, keyVars, pipelines, stages, leadComments,
                           now, signups>>

\* GET /api/organizations/:organizationId/leads/:leadId
GetLead(caller, orgId, leadId) ==
    /\ Idle
    /\ IF Guard(caller, orgId) # Pass
       THEN Reject("getLead", caller, orgId, leadId, Guard(caller, orgId))
       ELSE IF getLead(leadId, orgId) = Undefined
       THEN Reject("getLead", caller, orgId, leadId, 404)
       ELSE Read("getLead", caller, orgId, leadId,
                 {[lead |-> getLead(leadId, orgId),
                   comments |-> getLeadComments(leadId, orgId)]})

\* PUT /api/organizations/:organizationId/leads/:leadId
UpdateLead(caller, orgId, leadId, updates) ==
    /\ Idle
    /\ IF Guard(caller, orgId) # Pass
       THEN Reject("updateLead", caller, orgId, leadId, Guard(caller, orgId))
       ELSE IF Role(caller, orgId) \notin {"admin", "editor"}
       THEN Reject("updateLead", caller, orgId, leadId, 403)
       ELSE IF IsThrown(updateLead(leadId, orgId, updates))
       THEN Reject("updateLead", caller, orgId, leadId, 500)
       ELSE /\ Len(auditLogs) < MaxAudit
            /\ leads' = updateLead(leadId, orgId, updates).map
            /\ auditLogs' = createAuditLog(auditLogs, orgId, caller, "update",
                                           "lead", leads'[leadId].id, "")
            /\ Reply("updateLead", caller, orgId, leadId, 200, {leads'[leadId]})
            /\ UNCHANGED <<orgVars, keyVars, pipelines, stages, leadComments,
                           nextId, now, signups>>

\* DELETE /api/organizations/:organizationId/leads/:leadId
DeleteLead(caller, orgId, leadId) ==
    /\ Idle
    /\ IF Guard(caller, orgId) # Pass
       THEN Reject("deleteLead", caller, orgId, leadId, Guard(caller, orgId))
       ELSE IF Role(caller, orgId) \notin {"admin", "editor"}
       THEN Reject("deleteLead", caller, orgId, leadId, 403)
       ELSE /\ Len(auditLogs) < MaxAudit
            /\ LET after == deleteLead(leadId, orgId)
               IN /\ leads' = after.leads
                  /\ leadComments' = after.leadComments
            /\ auditLogs' = createAuditLog(auditLogs, orgId, caller, "delete",
                                           "lead", leadId, "")
            /\ Reply("deleteLead", caller, orgId, leadId, 200, {})
            /\ UNCHANGED <<orgVars, keyVars, pipelines, stages, nextId, now, signups>>

\* POST /api/organizations/:organizationId/leads/:leadId/move
MoveLead(caller, orgId, leadId, body) ==
    /\ Idle
    /\ IF Guard(caller, orgId) # Pass
       THEN Reject("moveLead", caller, orgId, leadId, Guard(caller, orgId))
       ELSE IF Role(caller, orgId) \notin {"admin", "editor"}
       THEN Reject("moveLead", caller, orgId, leadId, 403)
       ELSE IF getStage(body.stageId, orgId) = Undefined
       THEN Reject("moveLead", caller, orgId, leadId, 404)
       ELSE IF IsThrown(moveLeadToStage(leadId, body.stageId, orgId))
       THEN Reject("moveLead", caller, orgId, leadId, 500)
       ELSE /\ Len(auditLogs) < MaxAudit
            /\ leads' = moveLeadToStage(leadId, body.stageId, orgId).map
            /\ auditLogs' = createAuditLog(auditLogs, orgId, caller, "move",
                                           "lead", leads'[leadId].id, "")
            /\ Reply("moveLead", caller, orgId, leadId, 200, {leads'[leadId]})
            /\ UNCHANGED <<orgVars, keyVars, pipelines, stages, leadComments,
                           nextId, now, signups>>

\* ------------------------------------------------- routes: comments
\* Text is a sequence of one-character strings.
UpperCase == <<"A", "B", "C", "S">>
LowerCase == <<"a", "b", "c", "s">>
WordChars == {UpperCase[i] : i \in 1..Len(UpperCase)}
                \cup {LowerCase[i] : i \in 1..Len(LowerCase)}

\* String.prototype.toLowerCase, one character
LowerChar(ch) ==
    IF \E i \in 1..Len(UpperCase) : UpperCase[i] = ch
    THEN LowerCase[CHOOSE i \in 1..Len(UpperCase) : UpperCase[i] = ch]
    ELSE ch

toLowerCaseIdentity(text) == text

toLowerCase(text) == [i \in 1..Len(text) |-> LowerChar(text[i])]

\* name.toLowerCase().replace(/\s+/g, "")
Username(name) == SelectSeq(toLowerCase(name), LAMBDA ch : ch # " ")

\* The end of the run of \w characters that starts at position i.
RECURSIVE WordEnd(_, _)
WordEnd(text, i) ==
    IF i + 1 <= Len(text) /\ text[i + 1] \in WordChars
    THEN WordEnd(text, i + 1) ELSE i

\* const mentionRegex = /@(\w+)/g; while ((match = mentionRegex.exec(body)) ...)
RECURSIVE ScanMentions(_, _)
ScanMentions(text, i) ==
    IF i > Len(text) THEN <<>>
    ELSE IF text[i] = "@" /\ i + 1 <= Len(text) /\ text[i + 1] \in WordChars
    THEN <<SubSeq(text, i + 1, WordEnd(text, i + 1))>>
             \o ScanMentions(text, WordEnd(text, i + 1) + 1)
    ELSE ScanMentions(text, i + 1)

\* user?.name || ''
MemberName(member) ==
    IF member.userId \in DOMAIN users THEN users[member.userId].name ELSE <<>>

\* new Map(orgMembers.map(m => [username, m.user.id])).get(mention.toLowerCase()):
\* of the members with that username the last one in insertion order wins.
ResolveMention(orgId, mention) ==
    LET named == {m \in getOrgMembers(orgId) :
                     Username(MemberName(m)) = toLowerCase(mention)}
    IN IF named = {} THEN 0
       ELSE LET last == CHOOSE m \in named : \A o \in named : o.position <= m.position
            IN IF last.userId \in DOMAIN users THEN last.userId ELSE 0

\* for (const mention of mentions) { if (userId && userId !== req.session.userId) push }
RECURSIVE ResolveMentions(_, _, _)
ResolveMentions(orgId, caller, mentions) ==
    IF mentions = <<>> THEN <<>>
    ELSE LET userId == ResolveMention(orgId, Head(mentions))
             rest == ResolveMentions(orgId, caller, Tail(mentions))
         IN IF userId # 0 /\ userId # caller THEN <<userId>> \o rest ELSE rest

\* one createAuditLog({action: "mention", entity: "user"}) per mentioned user
RECURSIVE MentionAudits(_, _, _, _)
MentionAudits(log, orgId, caller, mentioned) ==
    IF mentioned = <<>> THEN log
    ELSE MentionAudits(
             IF Head(mentioned) \in DOMAIN users
             THEN createAuditLog(log, orgId, caller, "mention", "user",
                                 Head(mentioned), "")
             ELSE log,
             orgId, caller, Tail(mentioned))

\* POST /api/organizations/:organizationId/leads/:leadId/comments
CreateComment(caller, orgId, leadId, body) ==
    /\ Idle
    /\ IF Guard(caller, orgId) # Pass
       THEN Reject("createComment", caller, orgId, leadId, Guard(caller, orgId))
       ELSE IF ~HasFields(body, {"body"})
       THEN Reject("createComment", caller, orgId, leadId, 400)
       ELSE LET mentioned == ResolveMentions(orgId, caller, ScanMentions(body.body, 1))
            IN /\ Len(auditLogs) < MaxAudit
               /\ nextId <= MaxIds
               /\ leadComments' = createLeadComment(nextId,
                                      [orgId |-> orgId, leadId |-> leadId,
                                       body |-> body.body, userId |-> caller,
                                       mentionedUserIds |-> mentioned])
               /\ nextId' = nextId + 1
               /\ auditLogs' = createAuditLog(
                                   MentionAudits(auditLogs, orgId, caller, mentioned),
                                   orgId, caller, "create", "comment", nextId, "")
               /\ Reply("createComment", caller, orgId, leadId, 200, {leadComments'[nextId]})
               /\ UNCHANGED <<orgVars, keyVars, pipelines, stages, leads, now, signups>>

\* DELETE /api/organizations/:organizationId/leads/:leadId/comments/:commentId
DeleteComment(caller, orgId, leadId, commentId) ==
    LET Answer(status) ==
            resp' = [op |-> "deleteComment", caller |-> caller, org |-> orgId,
                     target |-> commentId, status |-> status, body |-> {},
                     lead |-> leadId]
        Refuse(status) ==
            /\ Answer(status)
            /\ UNCHANGED <<storeVars, auditLogs, nextId, now, signups>>
    IN /\ Idle
       /\ IF Guard(caller, orgId) # Pass
          THEN Refuse(Guard(caller, orgId))
          ELSE IF ~\E c \in getLeadComments(leadId, orgId) : c.id = commentId
          THEN Refuse(404)
          ELSE LET comment == CHOOSE c \in getLeadComments(leadId, orgId) :
                                  c.id = commentId
               IN IF comment.userId # caller /\ Role(caller, orgId) # "admin"
                  THEN Refuse(403)
                  ELSE /\ Len(auditLogs) < MaxAudit
                       /\ leadComments' = deleteLeadComment(commentId, orgId).leadComments
                       /\ auditLogs' = createAuditLog(auditLogs, orgId, caller,
                                                      "delete", "comment", commentId, "")
                       /\ Answer(200)
                       /\ UNCHANGED <<orgVars, keyVars, pipelines, stages, leads,
                                      nextId, now, signups>>

\* ------------------------------------------------------ initial states
\* No signup request in flight.
NoSignups == [slot \in 1..MaxSignups |-> [pc |-> "idle"]]

\* The store as constructed: every map and the audit log empty.
Fresh ==
    /\ users = EmptyMap /\ organizations = EmptyMap /\ orgMembers = EmptyMap
    /\ apiKeys = EmptyMap /\ settings = EmptyMap /\ subscriptions = EmptyMap
    /\ auditLogs = <<>>
    /\ pipelines = EmptyMap /\ stages = EmptyMap /\ leads = EmptyMap
    /\ leadComments = EmptyMap
    /\ nextId = 1 /\ now = 0
    /\ resp = NoResp
    /\ signups = NoSignups

\* The identifiers randomUUID() handed out while the scenario below was set up.
ScenarioIds ==
    [ann |-> 1, annOrg |-> 2, bob |-> 3, bobOrg |-> 4, cy |-> 5, cyOrg |-> 6,
     pipeline |-> 7, stage |-> 8, lead |-> 9, comment |-> 10, apiKey |-> 11]
AnnId == ScenarioIds.ann
AnnOrg == ScenarioIds.annOrg
BobId == ScenarioIds.bob
BobOrg == ScenarioIds.bobOrg
CyId == ScenarioIds.cy
CyOrg == ScenarioIds.cyOrg

UserRecord(id, email, name) == [id |-> id, email |-> email, name |-> name]

OrgRecord(id, owner) ==
    [id |-> id, name |-> <<users[owner].name, "'s Organization">>, ownerId |-> owner,
     plan |-> "free", stripeCustomerId |-> 0]

SubscriptionRecord(orgId) == [orgId |-> orgId, plan |-> "free", status |-> "active"]

\* The store after these requests, in this order, on a fresh server:
\*   signup a@x.com, signup b@x.com, signup c@x.com (each creates the user and
\*   the user's default organization);
\*   Ann invites b@x.com to her organization with role bobRole;
\*   Ann creates a pipeline, a stage in it and a lead in the stage;
\*   Bob comments on the lead; Ann creates an API key.
Scenario(bobRole) ==
    /\ users = (AnnId :> UserRecord(AnnId, "a@x.com", <<"A", "c">>))
            @@ (BobId :> UserRecord(BobId, "b@x.com", <<"B", " ", "a">>))
            @@ (CyId :> UserRecord(CyId, "c@x.com", <<"C", " ", "S">>))
    /\ organizations = (AnnOrg :> OrgRecord(AnnOrg, AnnId))
            @@ (BobOrg :> OrgRecord(BobOrg, BobId))
            @@ (CyOrg :> OrgRecord(CyOrg, CyId))
    /\ subscriptions = (AnnOrg :> SubscriptionRecord(AnnOrg))
            @@ (BobOrg :> SubscriptionRecord(BobOrg))
            @@ (CyOrg :> SubscriptionRecord(CyOrg))
    /\ orgMembers =
           addOrgMember(
             addOrgMember(
               addOrgMember(
                 addOrgMember(EmptyMap, AnnOrg, AnnId, "admin", AnnId),
                 BobOrg, BobId, "admin", BobId),
               CyOrg, CyId, "admin", CyId),
             AnnOrg, BobId, bobRole, AnnId)
    /\ pipelines = (7 :> [id |-> 7, orgId |-> AnnOrg, name |-> "sales"])
    /\ stages = (8 :> [id |-> 8, orgId |-> AnnOrg, pipelineId |-> 7,
                       name |-> "new", order |-> 0])
    /\ leads = (9 :> [id |-> 9, orgId |-> AnnOrg, stageId |-> 8,
                      name |-> "lead", updatedAt |-> 0])
    /\ leadComments = (10 :> [id |-> 10, orgId |-> AnnOrg, leadId |-> 9,
                              body |-> <<"o", "k">>, userId |-> BobId,
                              mentionedUserIds |-> <<>>])
    /\ apiKeys = (11 :> [id |-> 11, orgId |-> AnnOrg, name |-> "CI",
                         keyHash |-> Sha256(KeyValue(11)),
                         keyPreview |-> KeyPreview(KeyValue(11)),
                         createdBy |-> AnnId])
    /\ settings = EmptyMap
    /\ auditLogs = <<
         [id |-> 1, orgId |-> AnnOrg, actorId |-> AnnId, action |-> "create",
          entity |-> "organization", entityId |-> AnnOrg, key |-> ""],
         [id |-> 2, orgId |-> BobOrg, actorId |-> BobId, action |-> "create",
          entity |-> "organization", entityId |-> BobOrg, key |-> ""],
         [id |-> 3, orgId |-> CyOrg, actorId |-> CyId, action |-> "create",
          entity |-> "organization", entityId |-> CyOrg, key |-> ""],
         [id |-> 4, orgId |-> AnnOrg, actorId |-> AnnId, action |-> "invite",
          entity |-> "member", entityId |-> BobId, key |-> ""],
         [id |-> 5, orgId |-> AnnOrg, actorId |-> AnnId, action |-> "create",
          entity |-> "pipeline", entityId |-> 7, key |-> ""],
         [id |-> 6, orgId |-> AnnOrg, actorId |-> AnnId, action |-> "create",
          entity |-> "stage", entityId |-> 8, key |-> ""],
         [id |-> 7, orgId |-> AnnOrg, actorId |-> AnnId, action |-> "create",
          entity |-> "lead", entityId |-> 9, key |-> ""],
         [id |-> 8, orgId |-> AnnOrg, actorId |-> BobId, action |-> "create",
          entity |-> "comment", entityId |-> 10, key |-> ""],
         [id |-> 9, orgId |-> AnnOrg, actorId |-> AnnId, action |-> "create",
          entity |-> "api_key", entityId |-> 11, key |-> ""] >>
    /\ nextId = 12
    /\ now = 0
    /\ resp = NoResp
    /\ signups = NoSignups

InitScenario == \E bobRole \in {"editor", "viewer"} : Scenario(bobRole)

\* ------------------------------------------------------ request inputs
Callers == {NoSession} \cup DOMAIN users
PathOrgs == {AnnOrg, BobOrg}
\* Callers without a session or without a membership in the path organization,
\* and the members of the path organization.
Outsiders ==
    {<<c, o>> \in Callers \X PathOrgs :
        c = NoSession \/ getOrgMember(o, c) = Undefined}
Insiders == (Callers \X PathOrgs) \ Outsiders

NoBody == <<>>
NameBody == [name |-> "renamed"]

ApiKeyBodies ==
    {NoBody, [name |-> "CI"], [name |-> "CI", orgId |-> AnnOrg, createdBy |-> AnnId]}
PipelineBodies == {NoBody, [name |-> "deals"]}
StageBodies ==
    {NoBody} \cup {[pipelineId |-> p, name |-> "won", order |-> 1] :
                     p \in DOMAIN pipelines \cup {0}}
LeadBodies ==
    {NoBody} \cup {[stageId |-> t, name |-> "acme"] : t \in DOMAIN stages \cup {0}}
InviteBodies ==
    {[email |-> e, role |-> r] :
        e \in {"b@x.com", "c@x.com", "z@x.com"}, r \in {"admin", "viewer", "owner"}}
SettingBodies == {[value |-> "dark"], [value |-> "light"]}
AirtableBodies == {NoBody, [baseId |-> "app1"], [apiKey |-> "pat1", baseId |-> "app1"]}

\* An update body that hands the record to another organization.
OrgBodies == {[orgId |-> o] : o \in PathOrgs}

\* Each owner, in the owner's own organization.
Owners == {<<organizations[o].ownerId, o>> : o \in PathOrgs}

\* ------------------------------------------ tenant scoping of lookups
\* The owners of two organizations read, update and delete pipelines, stages,
\* leads, comments and API keys by id, their own and the other owner's.
TenantRequest(c, o) ==
    \/ \E p \in DOMAIN pipelines : GetPipeline(c, o, p)
    \/ \E p \in DOMAIN pipelines, u \in OrgBodies : UpdatePipeline(c, o, p, u)
    \/ \E p \in DOMAIN pipelines : DeletePipeline(c, o, p)
    \/ \E t \in DOMAIN stages, u \in OrgBodies : UpdateStage(c, o, t, u)
    \/ \E t \in DOMAIN stages : DeleteStage(c, o, t)
    \/ \E l \in DOMAIN leads : GetLead(c, o, l)
    \/ \E l \in DOMAIN leads, u \in OrgBodies : UpdateLead(c, o, l, u)
    \/ \E l \in DOMAIN leads : DeleteLead(c, o, l)
    \/ \E m \in DOMAIN leadComments :
          DeleteComment(c, o, leadComments[m].leadId, m)
    \/ ListApiKeys(c, o)
    \/ \E k \in DOMAIN apiKeys : DeleteApiKey(c, o, k)

NextTenant ==
    \/ Deliver
    \/ \E pair \in Owners : TenantRequest(pair[1], pair[2])

SpecTenant == InitScenario /\ [][NextTenant]_vars

\* C1: for every pipeline, stage, lead, comment and API key E and every
\* organization A other than E's own, a get of E under A finds nothing, an
\* update of E under A throws not-found, and a delete of E under A leaves
\* the store as it is, E included.
TenantScoping ==
    \A A \in DOMAIN organizations :
        /\ \A id \in DOMAIN pipelines : pipelines[id].orgId # A =>
              /\ getPipeline(id, A) = Undefined
              /\ updatePipeline(id, A, NameBody) = Threw("Pipeline not found")
              /\ deletePipeline(id, A) = Crm
        /\ \A id \in DOMAIN stages : stages[id].orgId # A =>
              /\ getStage(id, A) = Undefined
              /\ updateStage(id, A, NameBody) = Threw("Stage not found")
              /\ deleteStage(id, A) = Crm
        /\ \A id \in DOMAIN leads : leads[id].orgId # A =>
              /\ getLead(id, A) = Undefined
              /\ updateLead(id, A, NameBody) = Threw("Lead not found")
              /\ deleteLead(id, A) = Crm
        /\ \A id \in DOMAIN leadComments : leadComments[id].orgId # A =>
              /\ leadComments[id] \notin getLeadComments(leadComments[id].leadId, A)
              /\ deleteLeadComment(id, A) = Crm
        /\ \A id \in DOMAIN apiKeys : apiKeys[id].orgId # A =>
              /\ apiKeys[id] \notin getApiKeys(A)
              /\ deleteApiKey(id, A) = apiKeys

\* A delete request for another organization's pipeline has been answered and
\* the pipeline is still there.
TenantScopingWitness ==
    /\ resp # NoResp
    /\ resp.op = "deletePipeline"
    /\ resp.status = 200
    /\ resp.target \in DOMAIN pipelines
    /\ pipelines[resp.target].orgId # resp.org

\* -------------------------------------------------------- access guard
\* Every organization-scoped route, called with ids and bodies of every shape.
OrgRequest(c, o) ==
    \/ ListMembers(c, o)
    \/ \E b \in InviteBodies : InviteMember(c, o, b)
    \/ ListApiKeys(c, o)
    \/ \E b \in ApiKeyBodies : CreateApiKey(c, o, b)
    \/ \E k \in DOMAIN apiKeys : DeleteApiKey(c, o, k)
    \/ GetSettings(c, o)
    \/ \E b \in SettingBodies : UpdateSetting(c, o, "theme", b)
    \/ GetAuditLogs(c, o)
    \/ GetOrganization(c, o)
    \/ \E b \in AirtableBodies : AirtableTest(c, o, b, FALSE)
    \/ AirtableSync(c, o)
    \/ ListPipelines(c, o)
    \/ \E b \in PipelineBodies : CreatePipeline(c, o, b)
    \/ \E p \in DOMAIN pipelines : GetPipeline(c, o, p)
    \/ \E p \in DOMAIN pipelines : UpdatePipeline(c, o, p, NameBody)
    \/ \E p \in DOMAIN pipelines : DeletePipeline(c, o, p)
    \/ \E b \in StageBodies : CreateStage(c, o, b)
    \/ \E t \in DOMAIN stages : UpdateStage(c, o, t, NameBody)
    \/ \E t \in DOMAIN stages : DeleteStage(c, o, t)
    \/ \E p \in DOMAIN pipelines :
          ReorderStages(c, o, [pipelineId |-> p, stageOrders |-> <<>>])
    \/ \E b \in LeadBodies : CreateLead(c, o, b)
    \/ \E l \in DOMAIN leads : GetLead(c, o, l)
    \/ \E l \in DOMAIN leads : UpdateLead(c, o, l, NameBody)
    \/ \E l \in DOMAIN leads : DeleteLead(c, o, l)
    \/ \E l \in DOMAIN leads, t \in DOMAIN stages : MoveLead(c, o, l, [stageId |-> t])
    \/ \E l \in DOMAIN leads : CreateComment(c, o, l, [body |-> <<"o", "k">>])
    \/ \E m \in DOMAIN leadComments : DeleteComment(c, o, leadComments[m].leadId, m)

\* Outsiders call every route; members invite users and delete pipelines, so
\* that who is an outsider and what there is to touch vary.
NextGuard ==
    \/ Deliver
    \/ \E pair \in Outsiders : OrgRequest(pair[1], pair[2])
    \/ \E pair \in Insiders, b \in InviteBodies : InviteMember(pair[1], pair[2], b)
    \/ \E pair \in Insiders, p \in DOMAIN pipelines :
          DeletePipeline(pair[1], pair[2], p)

SpecGuard == InitScenario /\ [][NextGuard]_vars

\* C2: a request on an organization-scoped route by a caller with no session
\* is answered 401, one by a user with no Membership in the path organization
\* is answered 403, and in both cases the store and the audit log stay as
\* they were.
AccessGuard ==
    [][(Idle /\ resp' # NoResp /\ <<resp'.caller, resp'.org>> \in Outsiders) =>
          /\ resp'.status = IF resp'.caller = NoSession THEN 401 ELSE 403
          /\ UNCHANGED <<storeVars, auditLogs>>]_vars

\* A user who is a member elsewhere but not of the path organization has been
\* refused the creation of a lead there.
AccessGuardWitness ==
    /\ resp # NoResp
    /\ resp.op = "createLead"
    /\ resp.caller # NoSession
    /\ getOrgMember(resp.org, resp.caller) = Undefined
    /\ resp.status = 403

\* ---------------------------------------------------- role-gated routes
\* The routes that are gated by role, and the two tabular-data routes.
RoleRequest(c, o) ==
    \/ \E b \in InviteBodies : InviteMember(c, o, b)
    \/ \E b \in ApiKeyBodies : CreateApiKey(c, o, b)
    \/ \E b \in PipelineBodies : CreatePipeline(c, o, b)
    \/ UpdateSetting(c, o, "theme", [value |-> "dark"])
    \/ \E b \in AirtableBodies : AirtableTest(c, o, b, FALSE)
    \/ AirtableSync(c, o)
    \/ GetSettings(c, o)

NextRoles ==
    \/ Deliver
    \/ \E pair \in Insiders : RoleRequest(pair[1], pair[2])

SpecRoles == InitScenario /\ [][NextRoles]_vars

\* C3: a viewer who calls invite-member, create-api-key, create-pipeline or
\* update-setting is answered 403 whatever the request body, and no
\* membership, API key, pipeline, setting or audit entry is created or changed.
ViewerForbidden ==
    [][(/\ Idle /\ resp' # NoResp
        /\ Role(resp'.caller, resp'.org) = "viewer"
        /\ resp'.op \in {"inviteMember", "createApiKey", "createPipeline",
                          "updateSetting"}) =>
          /\ resp'.status = 403
          /\ UNCHANGED <<orgMembers, apiKeys, pipelines, settings, auditLogs>>]_vars

\* C4: a Setting is created or overwritten only by a request of an admin of
\* the organization; update-setting and the tabular-data test and sync
\* requests of an editor or a viewer are answered 403 and leave the settings
\* as they were.
SettingsByAdminsOnly ==
    [][/\ settings' # settings =>
             /\ resp' # NoResp
             /\ Role(resp'.caller, resp'.org) = "admin"
       /\ (/\ Idle /\ resp' # NoResp
           /\ Role(resp'.caller, resp'.org) \in {"editor", "viewer"}
           /\ resp'.op \in {"updateSetting", "airtableTest", "airtableSync"}) =>
             /\ resp'.status = 403
             /\ UNCHANGED settings]_vars

\* ------------------------------------------------- pipelines and cascade
\* Members create pipelines, stages, leads and comments, update pipelines and
\* stages with bodies that carry orgId, and delete pipelines.
CrmRequest(c, o) ==
    \/ ListPipelines(c, o)
    \/ \E b \in PipelineBodies : CreatePipeline(c, o, b)
    \/ \E p \in DOMAIN pipelines, u \in OrgBodies : UpdatePipeline(c, o, p, u)
    \/ \E p \in DOMAIN pipelines : DeletePipeline(c, o, p)
    \/ \E b \in StageBodies : CreateStage(c, o, b)
    \/ \E t \in DOMAIN stages, u \in OrgBodies : UpdateStage(c, o, t, u)
    \/ \E b \in LeadBodies : CreateLead(c, o, b)
    \/ \E l \in DOMAIN leads : CreateComment(c, o, l, [body |-> <<"o", "k">>])

NextCrm ==
    \/ Deliver
    \/ \E pair \in Insiders : CrmRequest(pair[1], pair[2])

SpecCrm == InitScenario /\ [][NextCrm]_vars

PipelineCount(map, orgId) == Cardinality({k \in DOMAIN map : map[k].orgId = orgId})

PlanOf(orgId) ==
    IF getSubscription(orgId) = Undefined THEN "free" ELSE getSubscription(orgId).plan

\* C5: once a delete of pipeline P under P's own organization has been
\* answered 200, the store holds no stage whose pipelineId is P, no lead whose
\* stageId is one of the stages that had pipelineId P, and no comment whose
\* leadId is one of the leads of those stages.
FullCascade ==
    [][(/\ Idle /\ resp' # NoResp
        /\ resp'.op = "deletePipeline" /\ resp'.status = 200
        /\ getPipeline(resp'.target, resp'.org) # Undefined) =>
          LET P == resp'.target
              itsStages == {t \in DOMAIN stages : stages[t].pipelineId = P}
              itsLeads == {l \in DOMAIN leads : leads[l].stageId \in itsStages}
          IN /\ \A t \in DOMAIN stages' : stages'[t].pipelineId # P
             /\ \A l \in DOMAIN leads' : leads'[l].stageId \notin itsStages
             /\ \A m \in DOMAIN leadComments' :
                   leadComments'[m].leadId \notin itsLeads]_vars

\* C6: every organization has at most as many pipelines as its plan allows
\* (free 1, pro 5, team 20); a create-pipeline request of an admin or editor
\* with a valid body is answered 200 and adds one pipeline when the count is
\* below the limit, and is answered 400 and adds none when it is at the limit.
PipelinePlanLimit ==
    [][/\ \A o \in DOMAIN organizations :
             PipelineCount(pipelines', o) <= PlanPipelines(PlanOf(o))
       /\ (/\ Idle /\ resp' # NoResp
           /\ resp'.op = "createPipeline"
           /\ Role(resp'.caller, resp'.org) \in {"admin", "editor"}) =>
             IF PipelineCount(pipelines, resp'.org) < PlanPipelines(PlanOf(resp'.org))
             THEN resp'.status \in {200, 400}
                  /\ (resp'.status = 200 =>
                         PipelineCount(pipelines', resp'.org)
                            = PipelineCount(pipelines, resp'.org) + 1)
             ELSE resp'.status = 400 /\ pipelines' = pipelines]_vars

\* ------------------------------------------------------------ API keys
\* Members create, list and delete API keys and read the audit log and the
\* organization.
KeyRequest(c, o) ==
    \/ \E b \in ApiKeyBodies : CreateApiKey(c, o, b)
    \/ ListApiKeys(c, o)
    \/ \E k \in DOMAIN apiKeys : DeleteApiKey(c, o, k)
    \/ GetAuditLogs(c, o)
    \/ GetOrganization(c, o)

NextKeys ==
    \/ Deliver
    \/ \E pair \in Insiders : KeyRequest(pair[1], pair[2])

SpecKeys == InitScenario /\ [][NextKeys]_vars

\* C7: a response that carries the plaintext secret of an API key is the 200
\* response to the creation of that key, requested by an admin or editor; the
\* creation response does carry it; every stored ApiKey holds the SHA-256 hash
\* and the masked preview of its secret and no plaintext; no audit entry
\* carries key material.
SecretShownOnce ==
    LET Secrets(item) ==
            {item[f] : f \in DOMAIN item \cap {"keyValue", "keyHash", "keyPreview"}}
        Plain(item) == {v \in Secrets(item) : v.kind = "plain"}
    IN /\ \A k \in DOMAIN apiKeys :
             /\ Plain(apiKeys[k]) = {}
             /\ apiKeys[k].keyHash = Sha256(KeyValue(k))
             /\ apiKeys[k].keyPreview = KeyPreview(KeyValue(k))
       /\ \A i \in 1..Len(auditLogs) : Secrets(auditLogs[i]) = {}
       /\ resp # NoResp =>
             /\ \A item \in resp.body :
                   Plain(item) # {} =>
                      /\ resp.op = "createApiKey" /\ resp.status = 200
                      /\ Role(resp.caller, resp.org) \in {"admin", "editor"}
                      /\ item.id = nextId - 1
                      /\ Plain(item) = {KeyValue(item.id)}
             /\ (resp.op = "createApiKey" /\ resp.status = 200) =>
                   \E item \in resp.body : item.keyValue = KeyValue(item.id)

\* A key has been created, its creation response delivered, and the keys of
\* its organization listed afterwards.
SecretShownOnceWitness ==
    /\ resp # NoResp
    /\ resp.op = "listApiKeys"
    /\ \E item \in resp.body : item.id >= ScenarioIds.apiKey + 1

\* -------------------------------------------------------------- signup
\* POST /api/auth/signup, one action per stretch of the handler between two
\* awaits. Each slot is one request in flight; the slots interleave.
SignupBodies ==
    {NoBody} \cup {[email |-> e, password |-> "pw", name |-> <<"A", "c">>] :
                      e \in {"a@x.com", "b@x.com"}}

SignupStep(slot, fields) == signups' = [signups EXCEPT ![slot] = Merge(@, fields)]

\* insertUserSchema.parse, then getUserByEmail: 400 when the body is invalid
\* or the email is registered.
SignupCheck(slot, body) ==
    /\ signups[slot].pc = "idle"
    /\ IF ~HasFields(body, {"email", "password", "name"})
       THEN SignupStep(slot, [pc |-> "done", status |-> 400, email |-> "",
                              session |-> NoSession])
       ELSE IF getUserByEmail(body.email) # Undefined
       THEN SignupStep(slot, [pc |-> "done", status |-> 400, email |-> body.email,
                              session |-> NoSession])
       ELSE SignupStep(slot, [pc |-> "createUser", email |-> body.email,
                              name |-> body.name, session |-> NoSession])
    /\ UNCHANGED <<storeVars, auditLogs, nextId, now, resp>>

\* createUser up to its await: randomUUID(), then bcrypt.hash is pending.
SignupHash(slot) ==
    /\ signups[slot].pc = "createUser"
    /\ nextId <= MaxIds
    /\ SignupStep(slot, [pc |-> "hashing", userId |-> nextId])
    /\ nextId' = nextId + 1
    /\ UNCHANGED <<storeVars, auditLogs, now, resp>>

\* createUser after bcrypt.hash: users.set(id, user); the session is opened.
SignupStore(slot) ==
    /\ signups[slot].pc = "hashing"
    /\ users' = MapSet(users, signups[slot].userId,
                       UserRecord(signups[slot].userId, signups[slot].email,
                                  signups[slot].name))
    /\ SignupStep(slot, [pc |-> "createOrganization",
                         session |-> signups[slot].userId])
    /\ UNCHANGED <<organizations, orgMembers, subscriptions, keyVars, crmVars,
                   auditLogs, nextId, now, resp>>

\* createOrganization (with the owner's admin membership and the free
\* subscription) and the audit entry of the creation.
SignupOrganization(slot) ==
    /\ signups[slot].pc = "createOrganization"
    /\ nextId <= MaxIds
    /\ Len(auditLogs) < MaxAudit
    /\ organizations' = MapSet(organizations, nextId,
                               OrgRecord(nextId, signups[slot].userId))
    /\ orgMembers' = addOrgMember(orgMembers, nextId, signups[slot].userId,
                                  "admin", signups[slot].userId)
    /\ subscriptions' = MapSet(subscriptions, nextId, SubscriptionRecord(nextId))
    /\ auditLogs' = createAuditLog(auditLogs, nextId, signups[slot].userId,
                                   "create", "organization", nextId, "")
    /\ nextId' = nextId + 1
    /\ SignupStep(slot, [pc |-> "done", status |-> 200])
    /\ UNCHANGED <<users, keyVars, crmVars, now, resp>>

\* The response is sent; the slot takes the next request.
SignupRespond(slot) ==
    /\ signups[slot].pc = "done"
    /\ signups' = [signups EXCEPT ![slot] = [pc |-> "idle"]]
    /\ UNCHANGED <<storeVars, auditLogs, nextId, now, resp>>

NextSignup ==
    \E slot \in 1..MaxSignups :
        \/ \E body \in SignupBodies : SignupCheck(slot, body)
        \/ SignupHash(slot)
        \/ SignupStore(slot)
        \/ SignupOrganization(slot)
        \/ SignupRespond(slot)

SpecSignup == Fresh /\ [][NextSignup]_vars

\* C8: no two users share an email, however concurrent signups interleave,
\* and a signup whose email is registered is answered 400 and creates no user.
EmailUnique ==
    [][/\ \A u1, u2 \in DOMAIN users' :
             users'[u1].email = users'[u2].email => u1 = u2
       /\ \A slot \in 1..MaxSignups :
             (/\ signups[slot].pc = "idle" /\ signups'[slot].pc # "idle"
              /\ signups'[slot].email \in {users[u].email : u \in DOMAIN users}) =>
                /\ signups'[slot].pc = "done"
                /\ signups'[slot].status = 400
                /\ users' = users]_vars

\* ------------------------------------------------------------- members
\* Every caller asks to invite registered and unregistered users, with roles
\* inside and outside the enumeration; members list the memberships.
NextMembers ==
    \/ Deliver
    \/ \E c \in Callers, o \in PathOrgs, b \in InviteBodies : InviteMember(c, o, b)
    \/ \E pair \in Insiders : ListMembers(pair[1], pair[2])

SpecMembers == InitScenario /\ [][NextMembers]_vars

\* C9: an invite-member request adds a Membership (of the invited user in
\* the path organization, and nothing else) exactly when the caller is an
\* admin or editor of the organization, the email is that of a registered
\* user and that user is not yet a member; otherwise it is rejected and the
\* memberships, the roles of existing members included, stay as they were.
InviteAddsMember ==
    [][(Idle /\ resp' # NoResp /\ resp'.op = "inviteMember") =>
          LET org == resp'.org
              registered == {u \in DOMAIN users : users[u].email = resp'.email}
              allowed ==
                 /\ <<org, resp'.caller>> \in DOMAIN orgMembers
                 /\ orgMembers[<<org, resp'.caller>>].role \in {"admin", "editor"}
                 /\ registered # {}
                 /\ \A u \in registered : <<org, u>> \notin DOMAIN orgMembers
          IN IF allowed
             THEN /\ resp'.status = 200
                  /\ \E u \in registered :
                        /\ DOMAIN orgMembers' = DOMAIN orgMembers \cup {<<org, u>>}
                        /\ orgMembers'[<<org, u>>].orgId = org
                        /\ orgMembers'[<<org, u>>].userId = u
                  /\ \A k \in DOMAIN orgMembers : orgMembers'[k] = orgMembers[k]
             ELSE /\ resp'.status # 200
                  /\ orgMembers' = orgMembers]_vars

\* An editor has invited a registered user who was not a member, and the user
\* is a member now.
InviteAddsMemberWitness ==
    /\ resp # NoResp
    /\ resp.op = "inviteMember"
    /\ resp.status = 200
    /\ Role(resp.caller, resp.org) = "editor"
    /\ \E item \in resp.body : <<resp.org, item.userId>> \in DOMAIN orgMembers

\* C10: every Membership's role is one of admin, editor and viewer, and no
\* two Memberships have the same organization and user.
RoleEnumeration ==
    /\ \A k \in DOMAIN orgMembers : orgMembers[k].role \in {"admin", "editor", "viewer"}
    /\ \A k1, k2 \in DOMAIN orgMembers :
          (/\ orgMembers[k1].orgId = orgMembers[k2].orgId
           /\ orgMembers[k1].userId = orgMembers[k2].userId) => k1 = k2

\* ------------------------------------------- organizations and sessions
getUserWithOrganizationsAsOwner(userId) ==
    IF userId \notin DOMAIN users THEN Undefined
    ELSE Merge(users[userId],
               [organizations |->
                  {Merge(organizations[m.orgId], [role |-> "owner"]) :
                     m \in {x \in Values(orgMembers) :
                              x.userId = userId /\ x.orgId \in DOMAIN organizations}}])

\* getOrganizationsByUser, then each organization with the role of the
\* user's membership in it
getUserWithOrganizations(userId) ==
    IF userId \notin DOMAIN users THEN Undefined
    ELSE Merge(users[userId],
               [organizations |->
                  {Merge(organizations[m.orgId], [role |-> m.role]) :
                     m \in {x \in Values(orgMembers) :
                              x.userId = userId /\ x.orgId \in DOMAIN organizations}}])

\* GET /api/auth/me
Me(caller) ==
    /\ Idle
    /\ IF requireAuth(caller) # Pass
       THEN Reject("me", caller, 0, 0, requireAuth(caller))
       ELSE IF getUserWithOrganizations(caller) = Undefined
       THEN Reject("me", caller, 0, 0, 404)
       ELSE Read("me", caller, 0, 0, getUserWithOrganizations(caller).organizations)

\* POST /api/organizations
\* insertOrganizationSchema.parse: name is required, plan is optional
CreateOrganization(caller, body) ==
    /\ Idle
    /\ IF requireAuth(caller) # Pass
       THEN Reject("createOrganization", caller, 0, 0, requireAuth(caller))
       ELSE IF ~HasFields(body, {"name"})
       THEN Reject("createOrganization", caller, 0, 0, 400)
       ELSE /\ Len(auditLogs) < MaxAudit
            /\ nextId <= MaxIds
            /\ organizations' =
                  MapSet(organizations, nextId,
                         [id |-> nextId, name |-> body.name, ownerId |-> caller,
                          plan |-> IF HasFields(body, {"plan"}) THEN body.plan
                                   ELSE "free",
                          stripeCustomerId |-> 0])
            /\ orgMembers' = addOrgMember(orgMembers, nextId, caller, "admin", caller)
            /\ subscriptions' = MapSet(subscriptions, nextId, SubscriptionRecord(nextId))
            /\ auditLogs' = createAuditLog(auditLogs, nextId, caller, "create",
                                           "organization", nextId, "")
            /\ nextId' = nextId + 1
            /\ Reply("createOrganization", caller, nextId, 0, 200,
                     {organizations'[nextId]})
            /\ UNCHANGED <<users, keyVars, crmVars, now, signups>>

\* (an organization name is a text followed by a literal suffix, as the
\* default name `${name}'s Organization` is)
OrganizationBodies ==
    {NoBody, [name |-> <<<<"H", "Q">>, "">>],
     [name |-> <<<<"H", "Q">>, "">>, plan |-> "team"]}

\* The user whose signup is in flight in some slot: the session cookie
\* reaches the client with the signup's response.
InFlight(userId) ==
    \E slot \in 1..MaxSignups :
        "userId" \in DOMAIN signups[slot] /\ signups[slot].userId = userId

Sessions == {c \in Callers : ~InFlight(c)}

\* Signups of a registered and of a new email interleave with one another
\* and with users who create organizations and read their own account.
NextOrgs ==
    \/ Deliver
    \/ \E slot \in 1..MaxSignups :
          \/ \E e \in {"a@x.com", "d@x.com"} :
                SignupCheck(slot, [email |-> e, password |-> "pw",
                                   name |-> <<"D", "i">>])
          \/ SignupHash(slot)
          \/ SignupStore(slot)
          \/ SignupOrganization(slot)
          \/ SignupRespond(slot)
    \/ \E c \in Sessions, b \in OrganizationBodies : CreateOrganization(c, b)
    \/ \E c \in Sessions : Me(c)

SpecOrgs == InitScenario /\ [][NextOrgs]_vars

SignupScenario ==
    \A u \in DOMAIN users :
        ~InFlight(u) =>
          \E o \in DOMAIN organizations :
              /\ organizations[o].name = <<users[u].name, "'s Organization">>
              /\ organizations[o].ownerId = u
              /\ getOrgMember(o, u) # Undefined
              /\ getOrgMember(o, u).role = "admin"
              /\ (resp # NoResp /\ resp.op = "me" /\ resp.caller = u) =>
                    /\ resp.status = 200
                    /\ \E item \in resp.body : item.id = o /\ item.role = "admin"

\* A user who has just signed up reads the account and finds the default
\* organization.
SignupScenarioWitness ==
    /\ resp # NoResp
    /\ resp.op = "me"
    /\ resp.caller >= ScenarioIds.apiKey + 1
    /\ resp.status = 200
    /\ resp.body # {}

\* ------------------------------------------------------------ comments
\* "ok", "@Ba", "@B", "@Ac @ba", "@Ba @ba"
CommentBodies ==
    {<<"o", "k">>, <<"@", "B", "a">>, <<"@", "B">>,
     <<"@", "A", "c", " ", "@", "b", "a">>,
     <<"@", "B", "a", " ", "@", "b", "a">>}

\* Members comment on leads, with and without mentions, and delete comments,
\* their own and others', through the right and the wrong lead; admins and
\* editors invite c@x.com. The user b@x.com is named "B a".
NextComments ==
    \/ Deliver
    \/ \E pair \in Insiders :
          \/ \E l \in DOMAIN leads, b \in CommentBodies :
                CreateComment(pair[1], pair[2], l, [body |-> b])
          \/ \E l \in DOMAIN leads \cup {0}, m \in DOMAIN leadComments :
                DeleteComment(pair[1], pair[2], l, m)
          \/ \E r \in {"editor", "viewer"} :
                InviteMember(pair[1], pair[2], [email |-> "c@x.com", role |-> r])

SpecComments == InitScenario /\ [][NextComments]_vars

\* C12: a delete-comment request removes a comment only if the caller is the
\* comment's author or an admin of the organization, and then removes that
\* comment alone; the request of another member, editor or viewer, for a
\* comment of the path's lead and organization is answered 403 and the
\* comment stays.
CommentDeletion ==
    [][(Idle /\ resp' # NoResp /\ resp'.op = "deleteComment") =>
          LET m == resp'.target
              found == /\ m \in DOMAIN leadComments
                       /\ leadComments[m].orgId = resp'.org
                       /\ leadComments[m].leadId = resp'.lead
              entitled ==
                  \/ leadComments[m].userId = resp'.caller
                  \/ orgMembers[<<resp'.org, resp'.caller>>].role = "admin"
          IN /\ leadComments' # leadComments =>
                  /\ found /\ entitled
                  /\ DOMAIN leadComments' = DOMAIN leadComments \ {m}
                  /\ \A k \in DOMAIN leadComments' : leadComments'[k] = leadComments[k]
             /\ (found /\ entitled) => (resp'.status = 200 /\ m \notin DOMAIN leadComments')
             /\ (found /\ ~entitled) =>
                  (resp'.status = 403 /\ leadComments' = leadComments)]_vars

\* A member who is neither the author nor an admin has asked to delete a
\* comment, was answered 403, and the comment is still there.
CommentDeletionWitness ==
    /\ resp # NoResp
    /\ resp.op = "deleteComment"
    /\ resp.status = 403
    /\ Role(resp.caller, resp.org) \in {"editor", "viewer"}
    /\ resp.target \in DOMAIN leadComments
    /\ leadComments[resp.target].userId # resp.caller

\* C18 (as the code has it): a token resolves to the member whose whole name,
\* lower-cased and with the whitespace stripped, equals the lower-cased token.
\* A comment "@Ba" stores mentionedUserIds = <<the member named "B a">> when
\* that user is a member of the path organization and not the author, and
\* no mention otherwise; a comment "@Ac @ba" stores the members named "Ac"
\* and "B a" in that order, the author left out.
MentionResolution ==
    [][(Idle /\ resp' # NoResp /\ resp'.op = "createComment" /\ resp'.status = 200) =>
          \A item \in resp'.body :
              LET Mentionable(u) ==
                      <<resp'.org, u>> \in DOMAIN orgMembers /\ u # resp'.caller
              IN /\ item = leadComments'[item.id]
                 /\ item.body = <<"@", "B", "a">> =>
                      item.mentionedUserIds =
                          SelectSeq(<<ScenarioIds.bob>>, Mentionable)
                 /\ item.body = <<"@", "A", "c", " ", "@", "b", "a">> =>
                      item.mentionedUserIds =
                          SelectSeq(<<ScenarioIds.ann, ScenarioIds.bob>>, Mentionable)
                 /\ item.body = <<"o", "k">> => item.mentionedUserIds = <<>>]_vars

\* A comment "@Ba" by another member has been stored with the member named
\* "B a" as its one mentioned user.
MentionResolutionWitness ==
    /\ resp # NoResp
    /\ resp.op = "createComment"
    /\ resp.status = 200
    /\ \E item \in resp.body :
          /\ item.body = <<"@", "B", "a">>
          /\ item.userId # ScenarioIds.bob
          /\ item.mentionedUserIds = <<ScenarioIds.bob>>

\* C18 (as the specification has it): a comment whose one token is the first
\* name of a member ("@B" for the member named "B a", as "@alice" for "Alice
\* Smith"), written by another member, stores exactly that member's id.
MentionByFirstName ==
    [][(Idle /\ resp' # NoResp /\ resp'.op = "createComment" /\ resp'.status = 200) =>
          \A item \in resp'.body :
              (/\ item.body = <<"@", "B">>
               /\ <<resp'.org, ScenarioIds.bob>> \in DOMAIN orgMembers
               /\ resp'.caller # ScenarioIds.bob) =>
                 item.mentionedUserIds = <<ScenarioIds.bob>>]_vars

\* ------------------------------------------------ parents and not-found
\* Members create stages, leads and comments under existing and absent
\* parents, move leads to stages of either organization, and update
\* pipelines, stages and leads by ids that exist and ids that do not.
\* (Bob's organization gets its own pipeline and stage through the same
\* requests.)
NextParents ==
    \/ Deliver
    \/ \E pair \in Insiders :
          \/ CreatePipeline(pair[1], pair[2], [name |-> "deals"])
          \/ \E b \in StageBodies : CreateStage(pair[1], pair[2], b)
          \/ \E b \in LeadBodies : CreateLead(pair[1], pair[2], b)
          \/ \E l \in DOMAIN leads \cup {0} :
                CreateComment(pair[1], pair[2], l, [body |-> <<"o", "k">>])
          \/ \E l \in DOMAIN leads \cup {0}, t \in DOMAIN stages \cup {0} :
                MoveLead(pair[1], pair[2], l, [stageId |-> t])
          \/ \E p \in DOMAIN pipelines \cup {0} :
                UpdatePipeline(pair[1], pair[2], p, NameBody)
          \/ \E t \in DOMAIN stages \cup {0} :
                UpdateStage(pair[1], pair[2], t, NameBody)
          \/ \E l \in DOMAIN leads \cup {0} :
                UpdateLead(pair[1], pair[2], l, NameBody)

SpecParents == InitScenario /\ [][NextParents]_vars

\* C13: a create-stage, create-lead, create-comment or move-lead request of
\* a member whose parent (pipeline, stage, lead, destination stage) does not
\* exist in the path organization is answered 404 and changes nothing.
ParentValidation ==
    [][\A pair \in Insiders :
          LET c == pair[1]
              o == pair[2]
              Rejected == resp'.status = 404 /\ UNCHANGED <<storeVars, auditLogs>>
          IN /\ \A b \in StageBodies \ {NoBody} :
                   (CreateStage(c, o, b) /\ Role(c, o) \in {"admin", "editor"}
                    /\ getPipeline(b.pipelineId, o) = Undefined) => Rejected
             /\ \A b \in LeadBodies \ {NoBody} :
                   (CreateLead(c, o, b) /\ Role(c, o) \in {"admin", "editor"}
                    /\ getStage(b.stageId, o) = Undefined) => Rejected
             /\ \A l \in DOMAIN leads \cup {0} :
                   (CreateComment(c, o, l, [body |-> <<"o", "k">>])
                    /\ getLead(l, o) = Undefined) => Rejected
             /\ \A l \in DOMAIN leads \cup {0}, t \in DOMAIN stages \cup {0} :
                   (MoveLead(c, o, l, [stageId |-> t])
                    /\ Role(c, o) \in {"admin", "editor"}
                    /\ getStage(t, o) = Undefined) => Rejected]_vars

\* C14: a move-lead request of a member of organization A, of whatever role,
\* whose destination stage belongs to another organization is answered 404
\* and the lead keeps its stageId.
MoveAcrossOrganizations ==
    [][\A pair \in Insiders :
          \A l \in DOMAIN leads, t \in DOMAIN stages :
              (/\ MoveLead(pair[1], pair[2], l, [stageId |-> t])
               /\ Role(pair[1], pair[2]) \in {"admin", "editor", "viewer"}
               /\ leads[l].orgId = pair[2]
               /\ stages[t].orgId # pair[2]) =>
                 /\ resp'.status = 404
                 /\ leads'[l].stageId = leads[l].stageId]_vars

\* C15: an update-pipeline, update-stage, update-lead or move-lead request of
\* an admin or editor for an id that is absent or belongs to another
\* organization is answered 404 and leaves the store and the audit log as
\* they were.
NotFoundMapping ==
    [][\A pair \in Insiders :
          LET c == pair[1]
              o == pair[2]
              NotFound == resp'.status = 404 /\ UNCHANGED <<storeVars, auditLogs>>
          IN Role(c, o) \in {"admin", "editor"} =>
               /\ \A p \in DOMAIN pipelines \cup {0} :
                     (UpdatePipeline(c, o, p, NameBody) /\ getPipeline(p, o) = Undefined)
                        => NotFound
               /\ \A t \in DOMAIN stages \cup {0} :
                     (UpdateStage(c, o, t, NameBody) /\ getStage(t, o) = Undefined)
                        => NotFound
               /\ \A l \in DOMAIN leads \cup {0} :
                     (UpdateLead(c, o, l, NameBody) /\ getLead(l, o) = Undefined)
                        => NotFound
               /\ \A l \in DOMAIN leads \cup {0}, t \in DOMAIN stages :
                     (MoveLead(c, o, l, [stageId |-> t]) /\ getStage(t, o) # Undefined
                      /\ getLead(l, o) = Undefined) => NotFound]_vars

\* ------------------------------------------------ routes: billing
\* const updated = { ...org, ...updates }; this.organizations.set(id, updated)
\* (the caller has looked the organization up, so the throw is not taken)
updateOrganization(id, updates) ==
    MapSet(organizations, id, Merge(organizations[id], updates))

\* What the payment provider does with a call: it serves it, or
\* customers.create throws, or checkout/billingPortal.sessions.create throws.
StripeOutcomes == {"ok", "noCustomer", "noSession"}

\* POST /api/billing/create-checkout-session (registered when the payment
\* provider is configured)
\* orgId: req.params.organizationId; the body (priceId, successUrl,
\* cancelUrl) is handed to the provider and decides nothing here.
\* A new customer id is drawn from nextId.
CreateCheckoutSession(caller, orgId, stripe) ==
    /\ Idle
    /\ IF Guard(caller, orgId) # Pass
       THEN Reject("createCheckoutSession", caller, orgId, 0, Guard(caller, orgId))
       ELSE IF Role(caller, orgId) # "admin"
       THEN Reject("createCheckoutSession", caller, orgId, 0, 403)
       ELSE IF orgId \notin DOMAIN organizations
       THEN Reject("createCheckoutSession", caller, orgId, 0, 404)
       ELSE IF organizations[orgId].stripeCustomerId # 0
       THEN IF stripe = "noSession"
            THEN Reject("createCheckoutSession", caller, orgId, 0, 500)
            ELSE Read("createCheckoutSession", caller, orgId, 0,
                      {[url |-> organizations[orgId].stripeCustomerId]})
       ELSE IF stripe = "noCustomer"
       THEN Reject("createCheckoutSession", caller, orgId, 0, 500)
       ELSE /\ nextId <= MaxIds
            /\ organizations' = updateOrganization(orgId, [stripeCustomerId |-> nextId])
            /\ nextId' = nextId + 1
            /\ IF stripe = "noSession"
               THEN Reply("createCheckoutSession", caller, orgId, 0, 500, {})
               ELSE Reply("createCheckoutSession", caller, orgId, 0, 200,
                          {[url |-> nextId]})
            /\ UNCHANGED <<users, orgMembers, subscriptions, keyVars, crmVars,
                           auditLogs, now, signups>>

\* POST /api/billing/create-portal-session
CreatePortalSession(caller, orgId, stripe) ==
    /\ Idle
    /\ IF Guard(caller, orgId) # Pass
       THEN Reject("createPortalSession", caller, orgId, 0, Guard(caller, orgId))
       ELSE IF Role(caller, orgId) # "admin"
       THEN Reject("createPortalSession", caller, orgId, 0, 403)
       ELSE IF \/ orgId \notin DOMAIN organizations
               \/ organizations[orgId].stripeCustomerId = 0
       THEN Reject("createPortalSession", caller, orgId, 0, 400)
       ELSE IF stripe = "noSession"
       THEN Reject("createPortalSession", caller, orgId, 0, 500)
       ELSE Read("createPortalSession", caller, orgId, 0,
                 {[url |-> organizations[orgId].stripeCustomerId]})

\* Users create organizations and ask for checkout and portal sessions. The
\* two billing paths have no :organizationId segment, so
\* req.params.organizationId is undefined (0) in every such request.
NextBilling ==
    \/ Deliver
    \/ \E c \in Callers, b \in OrganizationBodies : CreateOrganization(c, b)
    \/ \E c \in Callers, s \in StripeOutcomes : CreateCheckoutSession(c, 0, s)
    \/ \E c \in Callers, s \in StripeOutcomes : CreatePortalSession(c, 0, s)

SpecBilling == InitScenario /\ [][NextBilling]_vars

\* The organizations the user is an admin of.
AdminOrgs(userId) ==
    {o \in DOMAIN organizations : Role(userId, o) = "admin"}

\* C20: with the payment provider serving its calls, a create-checkout-session
\* request of an admin is answered 200 with a session URL and leaves an
\* organization of the admin with a customer id; a customer id, once set, is
\* never replaced; a create-portal-session request of an admin whose
\* organizations have no customer id is answered 400.
BillingSession ==
    [][\A c \in DOMAIN users :
          AdminOrgs(c) # {} =>
            /\ CreateCheckoutSession(c, 0, "ok") =>
                  /\ resp'.status = 200
                  /\ \E r \in resp'.body : "url" \in DOMAIN r
                  /\ \E o \in AdminOrgs(c) : organizations'[o].stripeCustomerId # 0
            /\ (/\ CreatePortalSession(c, 0, "ok")
                /\ \A o \in AdminOrgs(c) : organizations[o].stripeCustomerId = 0) =>
                  resp'.status = 400
            /\ \A o \in DOMAIN organizations :
                  organizations[o].stripeCustomerId # 0 =>
                    organizations'[o].stripeCustomerId =
                       organizations[o].stripeCustomerId]_vars

\* ------------------------------------------------ audit log
\* Members and outsiders send requests that change the store, requests that
\* are rejected, and reads of the audit log.
NextAudit ==
    \/ Deliver
    \/ \E c \in Callers, o \in PathOrgs :
          \/ \E b \in PipelineBodies : CreatePipeline(c, o, b)
          \/ UpdateSetting(c, o, "theme", [value |-> "dark"])
          \/ \E b \in AirtableBodies : AirtableTest(c, o, b, FALSE)
          \/ \E l \in DOMAIN leads, t \in {<<"o", "k">>, <<"@", "B", "a">>} :
                CreateComment(c, o, l, [body |-> t])
          \/ \E l \in DOMAIN leads : DeleteLead(c, o, l)
          \/ GetAuditLogs(c, o)

SpecAudit == InitScenario /\ [][NextAudit]_vars

\* C16: a request answered 200 that changed the store appended exactly one
\* audit entry for its organization (a comment creation: one more per
\* resolved mention); a request answered with an error status appended none.
AuditPerMutation ==
    [][(resp = NoResp /\ resp' # NoResp) =>
          IF resp'.status = 200
          THEN storeVars' # storeVars =>
                 LET mentions ==
                       IF resp'.op = "createComment"
                       THEN Len(leadComments'[nextId].mentionedUserIds)
                       ELSE 0
                 IN /\ Len(auditLogs') = Len(auditLogs) + 1 + mentions
                    /\ \A i \in (Len(auditLogs) + 1)..Len(auditLogs') :
                          auditLogs'[i].orgId = resp'.org
          ELSE auditLogs' = auditLogs]_vars

\* C17: across every transition the audit log only grows: the entries it had
\* are still there, in place and with all their fields, and the ids of the
\* entries are strictly increasing in append order (hence unique).
AppendOnly ==
    [][/\ Len(auditLogs') >= Len(auditLogs)
       /\ SubSeq(auditLogs', 1, Len(auditLogs)) = auditLogs
       /\ \A i, j \in 1..Len(auditLogs') :
             i < j => auditLogs'[i].id < auditLogs'[j].id]_vars

\* A comment with a resolved mention has just appended two entries after
\* the ones the log already had.
AppendOnlyWitness ==
    /\ resp.op = "createComment"
    /\ resp.status = 200
    /\ Len(auditLogs) > 2
    /\ auditLogs[Len(auditLogs)].entity = "comment"
    /\ auditLogs[Len(auditLogs) - 1].action = "mention"

\* ------------------------------------------------ tabular-data test and sync
\* Callers of every kind test the provider's credentials (inline key, key of
\* the environment, or none), start syncs, and admins overwrite the stored
\* base id through the settings route.
NextAirtable ==
    \/ Deliver
    \/ \E c \in Callers, o \in PathOrgs :
          \/ \E b \in AirtableBodies, envKey \in BOOLEAN : AirtableTest(c, o, b, envKey)
          \/ AirtableSync(c, o)
          \/ UpdateSetting(c, o, "airtable.baseId", [value |-> "app2"])
          \/ GetSettings(c, o)

SpecAirtable == InitScenario /\ [][NextAirtable]_vars

\* Both provider settings are stored for the organization.
Configured(orgId) ==
    /\ getSetting(orgId, "airtable.baseId") # Undefined
    /\ getSetting(orgId, "airtable.apiKey") # Undefined

\* C21: a sync while airtable.baseId or airtable.apiKey is absent is rejected
\* (with 400 once the caller has passed the admin check) and changes nothing;
\* a test answered 200 whose body had apiKey and baseId leaves both settings
\* stored for the path organization, with the body's values, and the settings
\* of every other organization as they were; an organization stays
\* configured, and a sync of an admin in a configured organization is
\* answered 200.
TestThenSync ==
    [][\A c \in Callers, o \in PathOrgs :
          /\ (AirtableSync(c, o) /\ ~Configured(o)) =>
                /\ resp'.status \in {400, 401, 403}
                /\ (Guard(c, o) = Pass /\ Role(c, o) = "admin") => resp'.status = 400
                /\ UNCHANGED <<storeVars, auditLogs>>
          /\ \A b \in AirtableBodies, envKey \in BOOLEAN :
                (/\ AirtableTest(c, o, b, envKey)
                 /\ HasFields(b, {"apiKey", "baseId"})
                 /\ resp'.status = 200) =>
                   /\ Configured(o)'
                   /\ getSetting(o, "airtable.baseId")'.value = b.baseId
                   /\ getSetting(o, "airtable.apiKey")'.value = b.apiKey
                   /\ \A k \in DOMAIN settings' :
                         k[1] # o => k \in DOMAIN settings /\ settings'[k] = settings[k]
          /\ Configured(o) => Configured(o)'
          /\ (AirtableSync(c, o) /\ Configured(o) /\ Role(c, o) = "admin") =>
                resp'.status = 200]_vars

\* An admin's sync has been accepted in an organization whose settings a
\* test stored.
TestThenSyncWitness ==
    /\ resp.op = "airtableSync"
    /\ resp.status = 200
    /\ Configured(resp.org)
    /\ getSetting(resp.org, "airtable.apiKey").value = "pat1"

\* ------------------------------------------------ organization statistics
\* Members invite users, create and delete API keys, pipelines and leads,
\* hand pipelines to the other organization, and read the organization.
NextStats ==
    \/ Deliver
    \/ \E pair \in Insiders :
          \/ GetOrganization(pair[1], pair[2])
          \/ InviteMember(pair[1], pair[2], [email |-> "c@x.com", role |-> "viewer"])
          \/ CreateApiKey(pair[1], pair[2], [name |-> "CI"])
          \/ \E k \in DOMAIN apiKeys : DeleteApiKey(pair[1], pair[2], k)
          \/ CreatePipeline(pair[1], pair[2], [name |-> "deals"])
          \/ \E p \in DOMAIN pipelines, b \in OrgBodies :
                UpdatePipeline(pair[1], pair[2], p, b)
          \/ \E p \in DOMAIN pipelines : DeletePipeline(pair[1], pair[2], p)
          \/ \E b \in LeadBodies : CreateLead(pair[1], pair[2], b)
          \/ \E l \in DOMAIN leads : DeleteLead(pair[1], pair[2], l)

SpecStats == InitScenario /\ [][NextStats]_vars

\* The records of a store map that carry the organization id.
RecordsOf(map, orgId) == {map[k] : k \in {j \in DOMAIN map : map[j].orgId = orgId}}

\* C22: for every organization the members, apiKeys, pipelines and leads
\* numbers of getOrganizationStats are the numbers of membership, API key,
\* pipeline and lead records with that orgId, and the statistics a
\* GET /api/organizations/:organizationId response carries are those numbers.
StatsAgree ==
    /\ \A o \in DOMAIN organizations :
          /\ getOrganizationStats(o).members = Cardinality(RecordsOf(orgMembers, o))
          /\ getOrganizationStats(o).apiKeys = Cardinality(RecordsOf(apiKeys, o))
          /\ getOrganizationStats(o).pipelines = Cardinality(RecordsOf(pipelines, o))
          /\ getOrganizationStats(o).leads = Cardinality(RecordsOf(leads, o))
    /\ (resp # NoResp /\ resp.op = "getOrganization" /\ resp.status = 200) =>
          \A r \in resp.body :
              /\ r.stats.members = Cardinality(RecordsOf(orgMembers, resp.org))
              /\ r.stats.apiKeys = Cardinality(RecordsOf(apiKeys, resp.org))
              /\ r.stats.pipelines = Cardinality(RecordsOf(pipelines, resp.org))
              /\ r.stats.leads = Cardinality(RecordsOf(leads, resp.org))

\* The organization is read after its lead was deleted, while another
\* organization has a pipeline of its own.
StatsAgreeWitness ==
    /\ resp # NoResp
    /\ resp.op = "getOrganization"
    /\ resp.status = 200
    /\ \E r \in resp.body : r.stats.pipelines > 0 /\ r.stats.leads = 0
    /\ \E p \in DOMAIN pipelines : pipelines[p].orgId # resp.org

\* ------------------------------------------------ integrity of the store
\* C23: every comment's leadId names a lead of the comment's organization,
\* every lead's stageId a stage of the lead's organization, and every stage's
\* pipelineId a pipeline of the stage's organization.
ReferentialIntegrity ==
    /\ \A c \in DOMAIN leadComments :
          /\ leadComments[c].leadId \in DOMAIN leads
          /\ leads[leadComments[c].leadId].orgId = leadComments[c].orgId
    /\ \A l \in DOMAIN leads :
          /\ leads[l].stageId \in DOMAIN stages
          /\ stages[leads[l].stageId].orgId = leads[l].orgId
    /\ \A t \in DOMAIN stages :
          /\ stages[t].pipelineId \in DOMAIN pipelines
          /\ pipelines[stages[t].pipelineId].orgId = stages[t].orgId

\* C24: every organization has its subscription, the organization's plan is
\* the subscription's plan, and an organization that a create-organization
\* request has just created is on the free plan.
PlanConsistency ==
    /\ \A o \in DOMAIN organizations :
          /\ getSubscription(o) # Undefined
          /\ organizations[o].plan = getSubscription(o).plan
    /\ (resp # NoResp /\ resp.op = "createOrganization" /\ resp.status = 200) =>
          organizations[resp.org].plan = "free"

\* C25: across every transition each pipeline, stage and lead that stays in
\* the store keeps its id and its organization id; every record is stored
\* under its own id; and a request under one organization's path leaves the
\* pipelines, stages and leads that the other organizations list as they
\* were.
IdentityFixed ==
    [][/\ \A p \in DOMAIN pipelines \cap DOMAIN pipelines' :
             pipelines'[p].id = p /\ pipelines'[p].orgId = pipelines[p].orgId
       /\ \A t \in DOMAIN stages \cap DOMAIN stages' :
             stages'[t].id = t /\ stages'[t].orgId = stages[t].orgId
       /\ \A l \in DOMAIN leads \cap DOMAIN leads' :
             leads'[l].id = l /\ leads'[l].orgId = leads[l].orgId
       /\ (resp = NoResp /\ resp' # NoResp) =>
             \A o \in DOMAIN organizations \ {resp'.org} :
                 /\ RecordsOf(pipelines, o)' = RecordsOf(pipelines, o)
                 /\ RecordsOf(stages, o)' = RecordsOf(stages, o)
                 /\ RecordsOf(leads, o)' = RecordsOf(leads, o)]_vars

\* ------------------------------------------------ privileges
\* C26: a membership with role admin appears only with the creation of its
\* organization, for the owner, or by a request of a caller who is an admin
\* of that organization; a request of an editor or viewer produces none.
NoEscalation ==
    [][\A k \in DOMAIN orgMembers' :
          (orgMembers'[k].role = "admin"
           /\ (k \notin DOMAIN orgMembers \/ orgMembers[k].role # "admin")) =>
             \/ /\ orgMembers'[k].orgId \notin DOMAIN organizations
                /\ organizations'[orgMembers'[k].orgId].ownerId = orgMembers'[k].userId
             \/ /\ resp' # NoResp
                /\ Role(resp'.caller, orgMembers'[k].orgId) = "admin"]_vars

\* ------------------------------------------------ mention lists
\* C27: the mentionedUserIds of every comment are ids of members of the
\* comment's organization, none of them the author's, and none occurs twice.
MentionSet ==
    \A c \in DOMAIN leadComments :
        LET ids == leadComments[c].mentionedUserIds
        IN /\ \A i \in 1..Len(ids) :
                 /\ getOrgMember(leadComments[c].orgId, ids[i]) # Undefined
                 /\ ids[i] # leadComments[c].userId
           /\ \A i, j \in 1..Len(ids) : ids[i] = ids[j] => i = j

\* ------------------------------------------------ time and list order
\* The clock moves on between two requests, or does not: new Date() has a
\* resolution of one millisecond.
Tick ==
    /\ now < MaxNow
    /\ now' = now + 1
    /\ UNCHANGED <<storeVars, auditLogs, nextId, resp, signups>>

\* Array.from(map.values()) ... .sort((a, b) => b.updatedAt - a.updatedAt):
\* the sort is stable, and the map's values come in insertion order, which is
\* the order of the keys.
RECURSIVE LeadsByUpdatedAt(_, _)
LeadsByUpdatedAt(map, keys) ==
    IF keys = {} THEN <<>>
    ELSE LET first == CHOOSE k \in keys : \A j \in keys :
                          \/ map[k].updatedAt > map[j].updatedAt
                          \/ map[k].updatedAt = map[j].updatedAt /\ k <= j
         IN <<map[first]>> \o LeadsByUpdatedAt(map, keys \ {first})

\* getLeads with the order of its result
getLeadsSorted(map, stageId, orgId) ==
    LeadsByUpdatedAt(map, {k \in DOMAIN map :
                             map[k].stageId = stageId /\ map[k].orgId = orgId})

\* req.body of PUT .../leads/:leadId
LeadUpdates == {NameBody, [updatedAt |-> MaxNow + 1]}

\* Members create, update and move leads while the clock runs.
NextLeads ==
    \/ Deliver
    \/ Tick
    \/ \E pair \in Insiders :
          \/ CreateLead(pair[1], pair[2], [stageId |-> ScenarioIds.stage, name |-> "acme"])
          \/ CreateStage(pair[1], pair[2],
                         [pipelineId |-> ScenarioIds.pipeline, name |-> "won", order |-> 1])
          \/ \E l \in DOMAIN leads, u \in LeadUpdates : UpdateLead(pair[1], pair[2], l, u)
          \/ \E l \in DOMAIN leads, t \in DOMAIN stages :
                MoveLead(pair[1], pair[2], l, [stageId |-> t])

SpecLeads == InitScenario /\ [][NextLeads]_vars

\* An update-lead or move-lead request has just been answered 200.
LeadTouched == resp = NoResp /\ resp' # NoResp /\ resp'.status = 200
               /\ resp'.op \in {"updateLead", "moveLead"}

\* The position of the lead in the list.
PositionIn(list, leadId) == CHOOSE i \in 1..Len(list) : list[i].id = leadId

\* C28: every update-lead and move-lead sets the lead's updatedAt to the
\* current time whatever the body contains; no lead's updatedAt decreases;
\* and in getLeads of its stage the updated lead is preceded only by leads
\* with the same updatedAt (it is first when its time is later than theirs).
LeadUpdateTime ==
    [][/\ \A l \in DOMAIN leads \cap DOMAIN leads' :
             leads'[l].updatedAt >= leads[l].updatedAt
       /\ LeadTouched =>
             LET lead == leads'[resp'.target]
                 list == getLeadsSorted(leads', lead.stageId, lead.orgId)
             IN /\ lead.updatedAt = now
                /\ \A i \in 1..(PositionIn(list, lead.id) - 1) :
                      list[i].updatedAt = lead.updatedAt
                /\ (\A i \in 1..Len(list) :
                       list[i].id # lead.id => list[i].updatedAt < lead.updatedAt)
                     => list[1].id = lead.id]_vars

\* A lead created after another one has been updated at a later time and is
\* first in its stage's list, ahead of the older lead.
LeadUpdateTimeWitness ==
    /\ resp # NoResp
    /\ resp.op \in {"updateLead", "moveLead"}
    /\ resp.status = 200
    /\ now > 0
    /\ LET lead == leads[resp.target]
           list == getLeadsSorted(leads, lead.stageId, lead.orgId)
       IN Len(list) > 1 /\ list[1].id = lead.id /\ list[2].id < lead.id

\* C28 as stated: the lead that was updated or moved most recently is the
\* first of getLeads for its stage.
LeadUpdatedFirst ==
    [][LeadTouched =>
          LET lead == leads'[resp'.target]
          IN getLeadsSorted(leads', lead.stageId, lead.orgId)[1].id = lead.id]_vars

\* ------------------------------------------------ reordering stages
\* Array.from(map.values()) ... .sort((a, b) => a.order - b.order): the sort
\* is stable over the map's insertion order.
RECURSIVE StagesByOrder(_, _)
StagesByOrder(map, keys) ==
    IF keys = {} THEN <<>>
    ELSE LET first == CHOOSE k \in keys : \A j \in keys :
                          \/ map[k].order < map[j].order
                          \/ map[k].order = map[j].order /\ k <= j
         IN <<map[first]>> \o StagesByOrder(map, keys \ {first})

\* getStages with the order of its result
getStagesSorted(map, pipelineId, orgId) ==
    StagesByOrder(map, {k \in DOMAIN map :
                          map[k].pipelineId = pipelineId /\ map[k].orgId = orgId})

\* req.body of POST .../stages/reorder: the scenario's pipeline or an absent
\* one, and up to two { id, order } entries for stages that exist and one
\* that does not.
StageOrderEntries == {[id |-> t, order |-> n] : t \in DOMAIN stages \cup {0}, n \in {1, 2}}
ReorderBodies ==
    {[pipelineId |-> p, stageOrders |-> so] :
        p \in {ScenarioIds.pipeline, 0},
        so \in {<<>>} \cup {<<e>> : e \in StageOrderEntries}
                 \cup {<<e1, e2>> : e1 \in StageOrderEntries, e2 \in StageOrderEntries}}

\* Members add stages to the scenario's pipeline and reorder stages.
NextReorder ==
    \/ Deliver
    \/ \E pair \in Insiders :
          \/ CreatePipeline(pair[1], pair[2], [name |-> "deals"])
          \/ \E p \in DOMAIN pipelines :
                CreateStage(pair[1], pair[2], [pipelineId |-> p, name |-> "won", order |-> 1])
          \/ \E b \in ReorderBodies : ReorderStages(pair[1], pair[2], b)

SpecReorder == InitScenario /\ [][NextReorder]_vars

\* The order the body gives the stage: that of its last entry for it.
RECURSIVE ListedOrder(_, _, _)
ListedOrder(stageOrders, id, default) ==
    IF stageOrders = <<>> THEN default
    ELSE ListedOrder(Tail(stageOrders), id,
                     IF Head(stageOrders).id = id THEN Head(stageOrders).order
                     ELSE default)

\* C29: a reorder-stages request for pipeline P in organization O that is
\* answered 200 gives each listed stage the order of the body, changes only
\* stages of P and O and only their order, and afterwards getStages(P, O)
\* is in ascending order.
ReorderEffect ==
    [][\A pair \in Insiders, b \in ReorderBodies :
          (ReorderStages(pair[1], pair[2], b) /\ resp'.status = 200) =>
             /\ DOMAIN stages' = DOMAIN stages
             /\ \A t \in DOMAIN stages :
                   /\ stages'[t] =
                         [stages[t] EXCEPT
                            !.order = ListedOrder(b.stageOrders, t, stages[t].order)]
                   /\ stages'[t] # stages[t] =>
                         /\ stages[t].pipelineId = b.pipelineId
                         /\ stages[t].orgId = pair[2]
             /\ LET list == getStagesSorted(stages', b.pipelineId, pair[2])
                IN \A i, j \in 1..Len(list) : i < j => list[i].order <= list[j].order]_vars

\* C30: a reorder-stages request that fails (an id of the list is absent or
\* belongs to another organization) leaves the order of every stage as it
\* was.
ReorderAllOrNothing ==
    [][\A pair \in Insiders, b \in ReorderBodies :
          (ReorderStages(pair[1], pair[2], b) /\ resp'.status = 500) =>
             \A t \in DOMAIN stages : stages'[t].order = stages[t].order]_vars

====
